---- MODULE Spec2Model ----
(***************************************************************************)
(* Card_Game: the game service (internal/api/services/game_service.go),    *)
(* the deck and game models (internal/api/models) and the MongoDB "games"  *)
(* collection they load from and persist to.                               *)
(*                                                                         *)
(* A card is a record [Suit, Value] of strings, a game a record            *)
(* [ID, Name, Players, GameDeck, PlayerHands] as in models.Game, and the   *)
(* collection a function from the ObjectIDs of the stored games to their   *)
(* documents. Every service method is one action: it parses the            *)
(* identifier, loads the document, mutates the loaded copy and persists    *)
(* the fields it $set-s. What each call returned is kept in `last`.        *)
(*                                                                         *)
(* Spec runs the calls from an empty collection. ShuffleSpec and           *)
(* EndgameSpec start from a game late in its run, whose draw pile is down  *)
(* to a few cards: ShuffleSpec shuffles such a pile with every sequence of *)
(* random draws, EndgameSpec deals it out (EndgameFairSpec: and the deals  *)
(* to its game keep coming).                                               *)
(* PlayersSpec runs the player lists alone, with a third name. HandsSpec   *)
(* and CountSpec read the hands and count the remaining cards of a game    *)
(* under way; LookupSpec and FaultySpec call every operation that takes a  *)
(* game identifier, the store answering every call or failing some;        *)
(* LifecycleSpec creates and deletes games around a game under way.        *)
(* RaceSpec runs two calls on one game at once: there a call is two steps, *)
(* its load and its write, and `inflight` holds what each call loaded.     *)
(* HandlerSpec posts request bodies to the three handlers that decode a    *)
(* player_name and pass it to the service.                                 *)
(***************************************************************************)
EXTENDS Integers, Sequences, FiniteSets, Bags, TLC

\* ------------------------------------------------------------------ bounds

\* Games ever created (calls of primitive.NewObjectID) in one run.
MaxGames == 1
\* Size of a run: the games it created plus, over the stored games, the
\* decks added, the cards dealt and the players in the player lists.
MaxLoad == 5
\* Longest pile that counts as short: it is shuffled with every sequence of
\* draws of rand.Intn and dealt from whatever the size of the run.
MaxShortPile == 3
\* Distinct cards the short piles are drawn from.
ShuffleCardKinds == 3
\* Decks added to the game of ShuffleSpec.
MaxShuffleDecks == 2

\* Player names the requests carry.
PlayerNames == {"alice", "bob"}
\* Game names the requests carry.
GameNames == {"x"}

\* ------------------------------------------------------------------ cards

\* models.NewDeck: the suits, in the order the outer loop ranges over them.
suits == <<"Hearts", "Diamonds", "Clubs", "Spades">>

\* models.NewDeck: the values, in the order the inner loop ranges over them.
values == <<"Ace", "2", "3", "4", "5", "6", "7", "8", "9", "10",
            "Jack", "Queen", "King">>

\* models.Card
Card(suit, value) == [Suit |-> suit, Value |-> value]

\* The inner loop of NewDeck: appends suit's cards from values[j] on.
RECURSIVE NewDeckValues(_, _, _)
NewDeckValues(cards, suit, j) ==
    IF j > Len(values) THEN cards
    ELSE NewDeckValues(Append(cards, Card(suit, values[j])), suit, j + 1)

\* The outer loop of NewDeck: appends the cards of suits[i] and later suits.
RECURSIVE NewDeckSuits(_, _)
NewDeckSuits(cards, i) ==
    IF i > Len(suits) THEN cards
    ELSE NewDeckSuits(NewDeckValues(cards, suits[i], 1), i + 1)

\* A deck built value-major (the two loops exchanged).
NewDeckValueMajor ==
    [k \in 1..(Len(suits) * Len(values)) |->
        Card(suits[((k - 1) % Len(suits)) + 1],
             values[((k - 1) \div Len(suits)) + 1])]

\* models.NewDeck: the cards of a new deck.
NewDeck == NewDeckSuits(<<>>, 1)

\* DeckService.CreateDeck
CreateDeck == NewDeck

\* The zero models.Card (what a failed call returns in place of a card).
NoCard == Card("", "")

\* ------------------------------------------------------------ identifiers

\* primitive.ObjectID is [12]byte; its hex form has two characters a byte.
ObjectIDLen == 12

HexDigits == <<"0", "1", "2", "3", "4", "5", "6", "7", "8", "9",
               "a", "b", "c", "d", "e", "f">>

UpperHexDigits == <<"0", "1", "2", "3", "4", "5", "6", "7", "8", "9",
                    "A", "B", "C", "D", "E", "F">>

IsHexChar(c) == \E n \in 1..16 : HexDigits[n] = c \/ UpperHexDigits[n] = c

HexVal(c) == (CHOOSE n \in 1..16 : HexDigits[n] = c \/ UpperHexDigits[n] = c) - 1

\* ObjectID.Hex: two lower-case hex characters for each byte.
Hex(oid) ==
    [k \in 1..(2 * Len(oid)) |->
        IF k % 2 = 1 THEN HexDigits[(oid[(k + 1) \div 2] \div 16) + 1]
        ELSE HexDigits[(oid[k \div 2] % 16) + 1]]

\* A parser that reads the zero ObjectID from what it cannot parse.
ObjectIDFromHexLenient(s) ==
    IF Len(s) # 2 * ObjectIDLen \/ \E k \in 1..Len(s) : ~IsHexChar(s[k])
    THEN [err |-> FALSE, id |-> [b \in 1..ObjectIDLen |-> 0]]
    ELSE [err |-> FALSE,
          id |-> [b \in 1..ObjectIDLen |->
                    16 * HexVal(s[2 * b - 1]) + HexVal(s[2 * b])]]

\* primitive.ObjectIDFromHex: an error unless s is 24 hex characters.
ObjectIDFromHex(s) ==
    IF Len(s) # 2 * ObjectIDLen \/ \E k \in 1..Len(s) : ~IsHexChar(s[k])
    THEN [err |-> TRUE, id |-> <<>>]
    ELSE [err |-> FALSE,
          id |-> [b \in 1..ObjectIDLen |->
                    16 * HexVal(s[2 * b - 1]) + HexVal(s[2 * b])]]

\* A generator that hands out the same identifier again and again.
NewObjectIDAgain(n) ==
    [b \in 1..ObjectIDLen |-> IF b = ObjectIDLen THEN 1 ELSE 0]

\* primitive.NewObjectID: the n-th identifier of this process. The timestamp
\* and process bytes are fixed here; the trailing counter makes it unique.
NewObjectID(n) ==
    [b \in 1..ObjectIDLen |->
        IF b = ObjectIDLen THEN n % 256
        ELSE IF b = ObjectIDLen - 1 THEN (n \div 256) % 256
        ELSE IF b = ObjectIDLen - 2 THEN (n \div 65536) % 256
        ELSE 0]

\* The zero ObjectID.
NilObjectID == [b \in 1..ObjectIDLen |-> 0]

\* Identifiers the requests carry: the hex form of every identifier the run
\* can allocate, one of a wrong length and one with a character that is no
\* hex digit.
RequestIDs ==
    {Hex(NewObjectID(n)) : n \in 1..MaxGames}
    \cup {<<"4", "2">>}
    \cup {[k \in 1..(2 * ObjectIDLen) |-> IF k = 1 THEN "g" ELSE "0"]}

\* primitive.ObjectIDFromHex on the identifiers the requests carry.
ParsedRequestID == [s \in RequestIDs |-> ObjectIDFromHex(s)]

\* ------------------------------------------------------------------ state

VARIABLES
    collection,       \* the "games" collection: ObjectID -> models.Game
    objectIDCounter,  \* identifiers primitive.NewObjectID has handed out
    decksAdded,       \* history: ObjectID -> successful AddDeckToGame calls
    last,             \* the last call: operation, arguments and what it returned
    inflight          \* the calls that overlap: where each is, what it loaded

vars == <<collection, objectIDCounter, decksAdded, last, inflight>>

\* A map[string][]Card with no key (a nil map reads the same).
NoHands == [p \in {} |-> <<>>]

\* models.Game
Game(id, name, players, deck, hands) ==
    [ID |-> id, Name |-> name, Players |-> players, GameDeck |-> deck,
     PlayerHands |-> hands]

\* The nil *models.Game a failed call returns.
NoGame == Game(NilObjectID, "", <<>>, <<>>, NoHands)

\* The error strings of the service.
ErrInvalidID == "invalid game ID"
ErrGameNotFound == "game not found"
ErrAlreadyJoined == "player already in the game"
ErrPlayerNotFound == "player not found in the game"
ErrEmptyDeck == "no cards left to deal"
ErrNoHand == "player not found or no cards dealt to this player"
\* The error of a store call that failed (returned as the driver gave it).
ErrStore == "store error"
\* The run-time panic of an index expression out of range.
ErrPanic == "panic: index out of range"
\* The run-time panic of an assignment to an entry of a nil map.
ErrNilMap == "panic: assignment to entry in nil map"

\* What a call returned: its error, and the card, the game, the cards (a
\* deck, a hand) or the rows (hand values, counts) it answered with.
Returned(op, gameID, playerName, err, card, game, deck) ==
    [op |-> op, gameID |-> gameID, playerName |-> playerName, err |-> err,
     card |-> card, game |-> game, deck |-> deck, rows |-> <<>>]

\* A call that returned the error err and nothing else.
Failed(op, gameID, playerName, err) ==
    Returned(op, gameID, playerName, err, NoCard, NoGame, <<>>)

\* A call that answered with the slice rows.
Listed(op, gameID, rows) ==
    [Failed(op, gameID, "", "") EXCEPT !.rows = rows]

\* Outcomes of the store calls of one operation: all succeed, the read
\* fails, or the write fails.
Faults == {"none", "find", "write"}

\* A failed update that had emptied the draw pile before it failed.
UpdateFailedHalfway(store, id) == [store EXCEPT ![id].GameDeck = <<>>]

\* The collection after an UpdateOne that returned an error: the single
\* $set was not applied, no document is modified.
UpdateFailed(store, id) == store

\* Cards in the hands hands[p], p in players.
RECURSIVE CardsInHands(_, _)
CardsInHands(hands, players) ==
    IF players = {} THEN 0
    ELSE LET p == CHOOSE q \in players : TRUE
         IN Len(hands[p]) + CardsInHands(hands, players \ {p})

\* Decks added to, cards dealt in and players listed in the games ids.
RECURSIVE GamesLoad(_)
GamesLoad(ids) ==
    IF ids = {} THEN 0
    ELSE LET id == CHOOSE i \in ids : TRUE
             game == collection[id]
         IN decksAdded[id] + Len(game.Players)
            + CardsInHands(game.PlayerHands, DOMAIN game.PlayerHands)
            + GamesLoad(ids \ {id})

\* The size of the run so far.
Load == objectIDCounter + GamesLoad(DOMAIN collection)

\* No calls overlap: every call runs from its load to its write alone.
NoCalls == <<>>

Init ==
    /\ collection = [id \in {} |-> NoGame]
    /\ objectIDCounter = 0
    /\ decksAdded = [id \in {} |-> 0]
    /\ last = Failed("none", <<>>, "", "")
    /\ inflight = NoCalls

\* --------------------------------------------------------------- lifecycle

\* An insert that leaves the new document alone in the collection.
InsertOneAlone(store, game) == [id \in {game.ID} |-> game]

\* CreateGame, line 69: the collection after InsertOne(ctx, game).
InsertOne(store, game) ==
    [id \in DOMAIN store \cup {game.ID} |->
        IF id = game.ID THEN game ELSE store[id]]

\* GameService.CreateGame, lines 60-76: the game is made and inserted.
InsertGame(name, fault) ==
    /\ objectIDCounter' = objectIDCounter + 1
    /\ UNCHANGED inflight
    /\ LET game == Game(NewObjectID(objectIDCounter + 1), name, <<>>, <<>>, NoHands)
       IN IF fault = "write"
          THEN /\ last' = Failed("CreateGame", <<>>, "", ErrStore)
               /\ UNCHANGED <<collection, decksAdded>>
          ELSE /\ collection' = InsertOne(collection, game)
               /\ decksAdded' =
                    [id \in DOMAIN decksAdded \cup {game.ID} |->
                        IF id = game.ID THEN 0 ELSE decksAdded[id]]
               /\ last' = Returned("CreateGame", <<>>, "", "", NoCard, game, <<>>)

\* GameService.CreateGame, while the run has room for another game.
CreateGame(name, fault) ==
    /\ objectIDCounter < MaxGames
    /\ Load < MaxLoad
    /\ InsertGame(name, fault)

\* A delete that reports a deleted document whether or not there was one.
DeletedCountOne(store, id) == 1

\* DeleteGame, lines 95 and 102: result.DeletedCount of DeleteOne by _id.
DeletedCount(store, id) == IF id \in DOMAIN store THEN 1 ELSE 0

\* GameService.DeleteGame
DeleteGame(gameID, fault) ==
    LET parsed == ParsedRequestID[gameID] IN
    IF parsed.err
    THEN /\ last' = Failed("DeleteGame", gameID, "", ErrInvalidID)
         /\ UNCHANGED <<collection, objectIDCounter, decksAdded, inflight>>
    ELSE IF fault = "write"
    THEN /\ last' = Failed("DeleteGame", gameID, "", ErrStore)
         /\ UNCHANGED <<collection, objectIDCounter, decksAdded, inflight>>
    ELSE IF DeletedCount(collection, parsed.id) = 0
    THEN /\ last' = Failed("DeleteGame", gameID, "", ErrGameNotFound)
         /\ UNCHANGED <<collection, objectIDCounter, decksAdded, inflight>>
    ELSE /\ collection' = [id \in DOMAIN collection \ {parsed.id} |-> collection[id]]
         /\ decksAdded' = [id \in DOMAIN decksAdded \ {parsed.id} |-> decksAdded[id]]
         /\ last' = Failed("DeleteGame", gameID, "", "")
         /\ UNCHANGED <<objectIDCounter, inflight>>

\* net/http: the statuses DeleteGameHandler answers with.
StatusNoContent == 204
StatusNotFound == 404

\* DeleteGameHandler, the answer to DELETE /games/{id}: the status it
\* writes for the error err that GameService.DeleteGame returned.
DeleteGameHandler(err) ==
    IF err # "" THEN StatusNotFound ELSE StatusNoContent

\* CreateDeckHandler: the deck DeckService.CreateDeck returns.
CreateDeckCall ==
    /\ last' = Returned("CreateDeck", <<>>, "", "", NoCard, NoGame, CreateDeck)
    /\ UNCHANGED <<collection, objectIDCounter, decksAdded, inflight>>

\* ------------------------------------------------------------ deck to game

\* The deck put in front of the pile instead of behind it.
PrependDeck(gameDeck, cards) == cards \o gameDeck

\* AddDeckToGame, line 134: append(game.GameDeck, deck.Cards...)
AppendDeck(gameDeck, cards) == gameDeck \o cards

\* GameService.AddDeckToGame, called as AddDeckToGameHandler calls it: with
\* the deck DeckService.CreateDeck has just made.
AddDeckToGame(gameID, fault) ==
    LET parsed == ParsedRequestID[gameID]
        deck == CreateDeck
    IN
    IF parsed.err
    THEN /\ last' = Failed("AddDeckToGame", gameID, "", ErrInvalidID)
         /\ UNCHANGED <<collection, objectIDCounter, decksAdded, inflight>>
    ELSE IF fault = "find" \/ parsed.id \notin DOMAIN collection
    THEN /\ last' = Failed("AddDeckToGame", gameID, "", ErrGameNotFound)
         /\ UNCHANGED <<collection, objectIDCounter, decksAdded, inflight>>
    ELSE LET loaded == collection[parsed.id]
             game == [loaded EXCEPT !.GameDeck = AppendDeck(loaded.GameDeck, deck)]
         IN /\ Load < MaxLoad
            /\ IF fault = "write"
               THEN /\ last' = Failed("AddDeckToGame", gameID, "", ErrStore)
                    /\ collection' = UpdateFailed(collection, parsed.id)
                    /\ UNCHANGED <<objectIDCounter, decksAdded, inflight>>
               ELSE /\ collection' =
                         [collection EXCEPT ![parsed.id].GameDeck = game.GameDeck]
                    /\ decksAdded' = [decksAdded EXCEPT ![parsed.id] = @ + 1]
                    /\ last' = Returned("AddDeckToGame", gameID, "", "", NoCard, game, <<>>)
                    /\ UNCHANGED <<objectIDCounter, inflight>>

\* An exchange that forgets the second assignment: the card at i is lost.
SwapOverwrite(deck, i, j) == [deck EXCEPT ![i + 1] = deck[j + 1]]

\* ShuffleDeck, line 77: the two cards at (0-based) indices i and j exchanged.
Swap(deck, i, j) == [deck EXCEPT ![i + 1] = deck[j + 1], ![j + 1] = deck[i + 1]]

\* Iterations lo..hi of the loop of Game.ShuffleDeck, in the order the loop
\* runs them; js[i + 1] is what rand.Intn(n) returns in iteration i. (The
\* range is halved, and the deck looked at before it is used, so that the
\* evaluation stays shallow on a long pile.)
RECURSIVE ShuffleLoop(_, _, _, _)
ShuffleLoop(deck, js, lo, hi) ==
    IF Len(deck) = 0 \/ lo > hi THEN deck
    ELSE IF lo = hi THEN Swap(deck, lo, js[lo + 1])
    ELSE LET mid == (lo + hi) \div 2
         IN ShuffleLoop(ShuffleLoop(deck, js, lo, mid), js, mid + 1, hi)

\* A shuffle whose loop exchanges every card with itself.
ShuffleDeckInPlace(deck, js) ==
    ShuffleLoop(deck, [i \in 1..Len(deck) |-> i - 1], 0, Len(deck) - 1)

\* Game.ShuffleDeck: the game deck after the loop, given the draws js.
ShuffleDeck(deck, js) == ShuffleLoop(deck, js, 0, Len(deck) - 1)

\* The draws of rand.Intn(n) over one shuffle of n cards: every sequence of
\* n indices in 0..n-1 for a short pile; for a long one the first draw is 0
\* or 1 and iteration i draws i afterwards (the top two cards are exchanged
\* or the pile keeps its order).
RandSeqs(n) ==
    IF n <= MaxShortPile THEN [1..n -> 0..(n - 1)]
    ELSE {[i \in 1..n |-> IF i = 1 THEN j ELSE i - 1] : j \in {0, 1}}

\* GameService.ShuffleGameDeck
ShuffleGameDeck(gameID, fault) ==
    LET parsed == ParsedRequestID[gameID] IN
    IF parsed.err
    THEN /\ last' = Failed("ShuffleGameDeck", gameID, "", ErrInvalidID)
         /\ UNCHANGED <<collection, objectIDCounter, decksAdded, inflight>>
    ELSE IF fault = "find" \/ parsed.id \notin DOMAIN collection
    THEN /\ last' = Failed("ShuffleGameDeck", gameID, "", ErrGameNotFound)
         /\ UNCHANGED <<collection, objectIDCounter, decksAdded, inflight>>
    ELSE \E js \in RandSeqs(Len(collection[parsed.id].GameDeck)) :
         LET loaded == collection[parsed.id]
             game == [loaded EXCEPT !.GameDeck = ShuffleDeck(loaded.GameDeck, js)]
         IN IF fault = "write"
            THEN /\ last' = Failed("ShuffleGameDeck", gameID, "", ErrStore)
                 /\ collection' = UpdateFailed(collection, parsed.id)
                 /\ UNCHANGED <<objectIDCounter, decksAdded, inflight>>
            ELSE /\ collection' =
                      [collection EXCEPT ![parsed.id].GameDeck = game.GameDeck]
                 /\ last' = Failed("ShuffleGameDeck", gameID, "", "")
                 /\ UNCHANGED <<objectIDCounter, decksAdded, inflight>>

\* ---------------------------------------------------------------- players

\* A membership loop that stops after the first player.
PlayerInGameFirstOnly(players, playerName) ==
    Len(players) > 0 /\ players[1] = playerName

\* A membership loop that looks at the last player only.
PlayerInGameLastOnly(players, playerName) ==
    Len(players) > 0 /\ players[Len(players)] = playerName

\* AddPlayer, lines 166-170: the loop that looks for playerName.
PlayerInGame(players, playerName) ==
    \E i \in 1..Len(players) : players[i] = playerName

\* The player put in front of the list instead of behind it.
PrependPlayer(players, playerName) == <<playerName>> \o players

\* AddPlayer, line 171: append(game.Players, playerName)
AppendPlayer(players, playerName) == Append(players, playerName)

\* GameService.AddPlayer
AddPlayer(gameID, playerName, fault) ==
    LET parsed == ParsedRequestID[gameID] IN
    IF parsed.err
    THEN /\ last' = Failed("AddPlayer", gameID, playerName, ErrInvalidID)
         /\ UNCHANGED <<collection, objectIDCounter, decksAdded, inflight>>
    ELSE IF fault = "find" \/ parsed.id \notin DOMAIN collection
    THEN /\ last' = Failed("AddPlayer", gameID, playerName, ErrGameNotFound)
         /\ UNCHANGED <<collection, objectIDCounter, decksAdded, inflight>>
    ELSE LET loaded == collection[parsed.id] IN
         IF PlayerInGame(loaded.Players, playerName)
         THEN /\ last' = Failed("AddPlayer", gameID, playerName, ErrAlreadyJoined)
              /\ UNCHANGED <<collection, objectIDCounter, decksAdded, inflight>>
         ELSE LET game == [loaded EXCEPT
                             !.Players = AppendPlayer(loaded.Players, playerName)]
              IN /\ Load < MaxLoad
                 /\ IF fault = "write"
                    THEN /\ last' = Failed("AddPlayer", gameID, playerName, ErrStore)
                         /\ collection' = UpdateFailed(collection, parsed.id)
                         /\ UNCHANGED <<objectIDCounter, decksAdded, inflight>>
                    ELSE /\ collection' =
                              [collection EXCEPT ![parsed.id].Players = game.Players]
                         /\ last' = Returned("AddPlayer", gameID, playerName, "",
                                             NoCard, game, <<>>)
                         /\ UNCHANGED <<objectIDCounter, decksAdded, inflight>>

\* A filter that appends the players it keeps in front of those it kept.
RECURSIVE WithoutPlayerReversed(_, _)
WithoutPlayerReversed(players, playerName) ==
    IF players = <<>> THEN <<>>
    ELSE IF Head(players) # playerName
         THEN WithoutPlayerReversed(Tail(players), playerName) \o <<Head(players)>>
         ELSE WithoutPlayerReversed(Tail(players), playerName)

\* RemovePlayer, lines 200-205: the players other than playerName, in order.
RECURSIVE WithoutPlayer(_, _)
WithoutPlayer(players, playerName) ==
    IF players = <<>> THEN <<>>
    ELSE IF Head(players) # playerName
         THEN <<Head(players)>> \o WithoutPlayer(Tail(players), playerName)
         ELSE WithoutPlayer(Tail(players), playerName)

\* An update that also drops the hands of the players who are not listed.
SetPlayersDropHands(stored, game) ==
    [stored EXCEPT
        !.Players = game.Players,
        !.PlayerHands =
            [p \in {q \in DOMAIN stored.PlayerHands :
                       \E i \in 1..Len(game.Players) : game.Players[i] = q} |->
                stored.PlayerHands[p]]]

\* RemovePlayer, lines 214-216: the stored document after the update
\* {"$set": {"players": game.Players}}.
SetPlayers(stored, game) == [stored EXCEPT !.Players = game.Players]

\* GameService.RemovePlayer
RemovePlayer(gameID, playerName, fault) ==
    LET parsed == ParsedRequestID[gameID] IN
    IF parsed.err
    THEN /\ last' = Failed("RemovePlayer", gameID, playerName, ErrInvalidID)
         /\ UNCHANGED <<collection, objectIDCounter, decksAdded, inflight>>
    ELSE IF fault = "find" \/ parsed.id \notin DOMAIN collection
    THEN /\ last' = Failed("RemovePlayer", gameID, playerName, ErrGameNotFound)
         /\ UNCHANGED <<collection, objectIDCounter, decksAdded, inflight>>
    ELSE LET loaded == collection[parsed.id]
             newPlayers == WithoutPlayer(loaded.Players, playerName)
         IN IF Len(newPlayers) = Len(loaded.Players)
            THEN /\ last' = Failed("RemovePlayer", gameID, playerName, ErrPlayerNotFound)
                 /\ UNCHANGED <<collection, objectIDCounter, decksAdded, inflight>>
            ELSE LET game == [loaded EXCEPT !.Players = newPlayers]
                 IN IF fault = "write"
                    THEN /\ last' = Failed("RemovePlayer", gameID, playerName, ErrStore)
                         /\ collection' = UpdateFailed(collection, parsed.id)
                         /\ UNCHANGED <<objectIDCounter, decksAdded, inflight>>
                    ELSE /\ collection' =
                              [collection EXCEPT ![parsed.id] = SetPlayers(@, game)]
                         /\ last' = Returned("RemovePlayer", gameID, playerName, "",
                                             NoCard, game, <<>>)
                         /\ UNCHANGED <<objectIDCounter, decksAdded, inflight>>

\* ---------------------------------------------------------------- dealing

\* An emptiness check that always fires.
DeckIsEmptyAlways(deck) == TRUE

\* An emptiness check that never fires.
DeckIsEmptyNever(deck) == FALSE

\* DealCardToPlayer, line 278: len(game.GameDeck) == 0
DeckIsEmpty(deck) == Len(deck) = 0

\* The card at the bottom of the pile instead of the top.
DealtCardBottom(deck) == deck[Len(deck)]

\* DealCardToPlayer, line 284: game.GameDeck[0]
DealtCard(deck) == deck[1]

\* A pile that keeps the card that was dealt.
RestOfDeckKeepsTop(deck) == deck

\* DealCardToPlayer, line 286: game.GameDeck[1:]
RestOfDeck(deck) == SubSeq(deck, 2, Len(deck))

\* Hands in which the card dealt goes in front of the cards held.
HandsAfterDealInFront(hands, playerName, card) ==
    [p \in DOMAIN hands \cup {playerName} |->
        IF p = playerName
        THEN <<card>> \o (IF p \in DOMAIN hands THEN hands[p] ELSE <<>>)
        ELSE hands[p]]

\* DealCardToPlayer, lines 289-293: the hands with card appended to
\* playerName's hand; the hand of a missing key reads as empty.
HandsAfterDeal(hands, playerName, card) ==
    [p \in DOMAIN hands \cup {playerName} |->
        IF p = playerName
        THEN Append(IF p \in DOMAIN hands THEN hands[p] ELSE <<>>, card)
        ELSE hands[p]]


\* GameService.DealCardToPlayer
DealCardToPlayer(gameID, playerName, fault) ==
    LET parsed == ParsedRequestID[gameID] IN
    IF parsed.err
    THEN /\ last' = Failed("DealCardToPlayer", gameID, playerName, ErrInvalidID)
         /\ UNCHANGED <<collection, objectIDCounter, decksAdded, inflight>>
    ELSE IF fault = "find" \/ parsed.id \notin DOMAIN collection
    THEN /\ last' = Failed("DealCardToPlayer", gameID, playerName, ErrGameNotFound)
         /\ UNCHANGED <<collection, objectIDCounter, decksAdded, inflight>>
    ELSE LET loaded == collection[parsed.id] IN
         IF DeckIsEmpty(loaded.GameDeck)
         THEN /\ last' = Failed("DealCardToPlayer", gameID, playerName, ErrEmptyDeck)
              /\ UNCHANGED <<collection, objectIDCounter, decksAdded, inflight>>
         ELSE IF Len(loaded.GameDeck) = 0
         THEN \* the index expression of line 284 panics; net/http recovers
              /\ last' = Failed("DealCardToPlayer", gameID, playerName, ErrPanic)
              /\ UNCHANGED <<collection, objectIDCounter, decksAdded, inflight>>
         ELSE LET dealtCard == DealtCard(loaded.GameDeck)
                  game == [loaded EXCEPT
                             !.GameDeck = RestOfDeck(loaded.GameDeck),
                             !.PlayerHands =
                                 HandsAfterDeal(loaded.PlayerHands, playerName, dealtCard)]
              IN /\ Load < MaxLoad \/ Len(loaded.GameDeck) <= MaxShortPile
                 /\ IF fault = "write"
                    THEN /\ last' = Failed("DealCardToPlayer", gameID, playerName, ErrStore)
                         /\ collection' = UpdateFailed(collection, parsed.id)
                         /\ UNCHANGED <<objectIDCounter, decksAdded, inflight>>
                    ELSE /\ collection' =
                              [collection EXCEPT
                                 ![parsed.id].GameDeck = game.GameDeck,
                                 ![parsed.id].PlayerHands = game.PlayerHands]
                         /\ last' = Returned("DealCardToPlayer", gameID, playerName, "",
                                             dealtCard, NoGame, <<>>)
                         /\ UNCHANGED <<objectIDCounter, decksAdded, inflight>>

\* ----------------------------------------------------------------- hands

\* A lookup that finds a hand under every name.
HandExistsAlways(hands, playerName) == TRUE

\* GetPlayerHand, line 331: exists, of hand, exists := game.PlayerHands[...]
HandExists(hands, playerName) == playerName \in DOMAIN hands

\* GameService.GetPlayerHand
GetPlayerHand(gameID, playerName, fault) ==
    LET parsed == ParsedRequestID[gameID] IN
    /\ UNCHANGED <<collection, objectIDCounter, decksAdded, inflight>>
    /\ IF parsed.err
       THEN last' = Failed("GetPlayerHand", gameID, playerName, ErrInvalidID)
       ELSE IF fault = "find" \/ parsed.id \notin DOMAIN collection
       THEN last' = Failed("GetPlayerHand", gameID, playerName, ErrGameNotFound)
       ELSE LET game == collection[parsed.id]
                hand == IF playerName \in DOMAIN game.PlayerHands
                        THEN game.PlayerHands[playerName]
                        ELSE <<>>
            IN IF ~HandExists(game.PlayerHands, playerName)
               THEN last' = Failed("GetPlayerHand", gameID, playerName, ErrNoHand)
               ELSE last' = Returned("GetPlayerHand", gameID, playerName, "",
                                     NoCard, NoGame, hand)

\* A rank table in which the court cards count ten.
getCardValueCourtTen(card) ==
    IF card.Value = "Ace" THEN 1
    ELSE IF card.Value \in {"2", "3", "4", "5", "6", "7", "8", "9"}
         THEN HexVal(card.Value)
    ELSE IF card.Value \in {"10", "Jack", "Queen", "King"} THEN 10
    ELSE 0

\* GameService.getCardValue: the switch on card.Value.
getCardValue(card) ==
    CASE card.Value = "Ace" -> 1
      [] card.Value = "2" -> 2
      [] card.Value = "3" -> 3
      [] card.Value = "4" -> 4
      [] card.Value = "5" -> 5
      [] card.Value = "6" -> 6
      [] card.Value = "7" -> 7
      [] card.Value = "8" -> 8
      [] card.Value = "9" -> 9
      [] card.Value = "10" -> 10
      [] card.Value = "Jack" -> 11
      [] card.Value = "Queen" -> 12
      [] card.Value = "King" -> 13
      [] OTHER -> 0

\* GetPlayersWithHandValues, lines 366-370: totalValue over hand[lo..hi]
\* (1-based; the range is halved so that the evaluation stays shallow).
RECURSIVE TotalValue(_, _, _)
TotalValue(hand, lo, hi) ==
    IF lo > hi THEN 0
    ELSE IF lo = hi THEN getCardValue(hand[lo])
    ELSE LET mid == (lo + hi) \div 2
         IN TotalValue(hand, lo, mid) + TotalValue(hand, mid + 1, hi)

\* services.PlayerHandValue
PlayerHandValue(playerName, handValue) ==
    [PlayerName |-> playerName, HandValue |-> handValue]

\* The orders in which a range loop may visit the keys of a map: every
\* sequence that holds each key once.
RangeOrders(keys) ==
    {order \in [1..Cardinality(keys) -> keys] :
        \A i, j \in 1..Cardinality(keys) : i # j => order[i] # order[j]}

\* A comparison that sorts the smallest hand value first.
LessAscending(a, b) == a.HandValue < b.HandValue

\* GetPlayersWithHandValues, lines 380-382: the less function of sort.Slice.
Less(a, b) == a.HandValue > b.HandValue

\* sort.Slice (not stable): the orders of rows in which no element is less
\* than one before it.
SortSlice(rows) ==
    {[i \in 1..Len(rows) |-> rows[order[i]]] : order \in
        {o \in RangeOrders(1..Len(rows)) :
            \A i, j \in 1..Len(rows) : i < j => ~Less(rows[o[j]], rows[o[i]])}}

\* GetPlayersWithHandValues, lines 364-385: the slices the call may return,
\* one for each order of the range loop and each outcome of the sort.
PlayerHandValues(game) ==
    UNION {SortSlice([i \in 1..Len(order) |->
                        PlayerHandValue(order[i],
                            TotalValue(game.PlayerHands[order[i]], 1,
                                       Len(game.PlayerHands[order[i]])))]) :
           order \in RangeOrders(DOMAIN game.PlayerHands)}

\* GameService.GetPlayersWithHandValues
GetPlayersWithHandValues(gameID, fault) ==
    LET parsed == ParsedRequestID[gameID] IN
    /\ UNCHANGED <<collection, objectIDCounter, decksAdded, inflight>>
    /\ IF parsed.err
       THEN last' = Failed("GetPlayersWithHandValues", gameID, "", ErrInvalidID)
       ELSE IF fault = "find" \/ parsed.id \notin DOMAIN collection
       THEN last' = Failed("GetPlayersWithHandValues", gameID, "", ErrGameNotFound)
       ELSE \E playerHandValues \in PlayerHandValues(collection[parsed.id]) :
               last' = Listed("GetPlayersWithHandValues", gameID, playerHandValues)

\* -------------------------------------------------------- remaining cards

\* services.SuitCount
SuitCount(suit, count) == [Suit |-> suit, Count |-> count]

\* services.CardCount
CardCount(suit, value, count) == [Suit |-> suit, Value |-> value, Count |-> count]

\* GetRemainingCardsCountBySuit, lines 444-449, and GetRemainingCardsSorted,
\* lines 493-498: the keys the maps are made with.
CountedSuits == {"Hearts", "Diamonds", "Clubs", "Spades"}

\* A count that includes the cards in the hands.
SuitCountsWithHands(game, suit) ==
    Cardinality({i \in 1..Len(game.GameDeck) : game.GameDeck[i].Suit = suit})
    + Cardinality({held \in UNION {{p} \X (DOMAIN game.PlayerHands[p]) :
                                     p \in DOMAIN game.PlayerHands} :
                     game.PlayerHands[held[1]][held[2]].Suit = suit})

\* GetRemainingCardsCountBySuit, lines 452-454: suitCounts[suit] after the
\* loop over the game deck.
SuitCounts(game, suit) ==
    Cardinality({i \in 1..Len(game.GameDeck) : game.GameDeck[i].Suit = suit})

\* A result that may leave out the suits of which no card remains.
RemainingCountsSkipEmpty(game) ==
    LET held == {game.GameDeck[i].Suit : i \in 1..Len(game.GameDeck)}
    IN UNION {{[i \in 1..Len(order) |->
                  SuitCount(order[i], SuitCounts(game, order[i]))] :
                 order \in RangeOrders(held \cup more)} :
              more \in SUBSET CountedSuits}

\* GetRemainingCardsCountBySuit, lines 444-464: the slices the call may
\* return, one for each order of the range loop over suitCounts. A suit that
\* is no key of the map becomes one when it is counted.
RemainingCounts(game) ==
    LET keys == CountedSuits
                  \cup {game.GameDeck[i].Suit : i \in 1..Len(game.GameDeck)}
    IN {[i \in 1..Len(order) |-> SuitCount(order[i], SuitCounts(game, order[i]))] :
           order \in RangeOrders(keys)}

\* GameService.GetRemainingCardsCountBySuit
GetRemainingCardsCountBySuit(gameID, fault) ==
    LET parsed == ParsedRequestID[gameID] IN
    /\ UNCHANGED <<collection, objectIDCounter, decksAdded, inflight>>
    /\ IF parsed.err
       THEN last' = Failed("GetRemainingCardsCountBySuit", gameID, "", ErrInvalidID)
       ELSE IF fault = "find" \/ parsed.id \notin DOMAIN collection
       THEN last' = Failed("GetRemainingCardsCountBySuit", gameID, "", ErrGameNotFound)
       ELSE \E remainingCounts \in RemainingCounts(collection[parsed.id]) :
               last' = Listed("GetRemainingCardsCountBySuit", gameID, remainingCounts)

\* GetRemainingCardsSorted, line 504
suitsOrder == <<"Hearts", "Spades", "Clubs", "Diamonds">>

\* The values in the order in which NewDeck makes them, the Ace first.
valuesOrderAceFirst == values

\* GetRemainingCardsSorted, line 505
valuesOrder == <<"King", "Queen", "Jack", "10", "9", "8", "7", "6", "5", "4",
                 "3", "2", "Ace">>

\* GetRemainingCardsSorted, lines 500-502: cardCounts[suit][value] after the
\* loop over the game deck.
CardCounts(deck, suit, value) ==
    Cardinality({i \in 1..Len(deck) : deck[i] = Card(suit, value)})

\* GetRemainingCardsSorted, lines 508-522: the two loops, flattened (the
\* k-th iteration looks at one suit and one value), keep the pairs counted.
RemainingCards(deck) ==
    LET counted ==
          [k \in 1..(Len(suitsOrder) * Len(valuesOrder)) |->
             LET suit == suitsOrder[((k - 1) \div Len(valuesOrder)) + 1]
                 value == valuesOrder[((k - 1) % Len(valuesOrder)) + 1]
             IN CardCount(suit, value, CardCounts(deck, suit, value))]
        Counted(row) == row.Count > 0
    IN SelectSeq(counted, Counted)

\* GameService.GetRemainingCardsSorted. Counting a card whose suit is no key
\* of cardCounts assigns to an entry of a nil map, which panics.
GetRemainingCardsSorted(gameID, fault) ==
    LET parsed == ParsedRequestID[gameID] IN
    /\ UNCHANGED <<collection, objectIDCounter, decksAdded, inflight>>
    /\ IF parsed.err
       THEN last' = Failed("GetRemainingCardsSorted", gameID, "", ErrInvalidID)
       ELSE IF fault = "find" \/ parsed.id \notin DOMAIN collection
       THEN last' = Failed("GetRemainingCardsSorted", gameID, "", ErrGameNotFound)
       ELSE LET game == collection[parsed.id] IN
            IF \E i \in 1..Len(game.GameDeck) : game.GameDeck[i].Suit \notin CountedSuits
            THEN last' = Failed("GetRemainingCardsSorted", gameID, "", ErrNilMap)
            ELSE last' = Listed("GetRemainingCardsSorted", gameID,
                                RemainingCards(game.GameDeck))

\* One call of the service, the outcome of its store calls drawn from faults.
Call(faults) ==
    \/ \E name \in GameNames, fault \in faults \ {"find"} : CreateGame(name, fault)
    \/ \E gameID \in RequestIDs, fault \in faults \ {"find"} : DeleteGame(gameID, fault)
    \/ CreateDeckCall
    \/ \E gameID \in RequestIDs, fault \in faults : AddDeckToGame(gameID, fault)
    \/ \E gameID \in RequestIDs, fault \in faults : ShuffleGameDeck(gameID, fault)
    \/ \E gameID \in RequestIDs, playerName \in PlayerNames, fault \in faults :
          AddPlayer(gameID, playerName, fault)
    \/ \E gameID \in RequestIDs, playerName \in PlayerNames, fault \in faults :
          RemovePlayer(gameID, playerName, fault)
    \/ \E gameID \in RequestIDs, playerName \in PlayerNames, fault \in faults :
          DealCardToPlayer(gameID, playerName, fault)

\* The calls of a run in which the store answers every call.
Next == Call({"none"})

Spec == Init /\ [][Next]_vars

\* ------------------------------------------------------- shuffling alone

\* Occurrences of card c in the sequence cards.
Occurrences(cards, c) == Cardinality({i \in 1..Len(cards) : cards[i] = c})

\* The sequence cards without the first occurrence of c.
RemoveFirst(cards, c) ==
    LET at == {i \in 1..Len(cards) : cards[i] = c} IN
    IF at = {} THEN cards
    ELSE LET first == CHOOSE i \in at : \A j \in at : i <= j
         IN SubSeq(cards, 1, first - 1) \o SubSeq(cards, first + 1, Len(cards))

\* The sequence cards without one occurrence of each card of pile.
RECURSIVE RemoveAll(_, _)
RemoveAll(cards, pile) ==
    IF pile = <<>> THEN cards
    ELSE RemoveAll(RemoveFirst(cards, Head(pile)), Tail(pile))

\* k decks, one after the other.
RECURSIVE Decks(_)
Decks(k) == IF k = 0 THEN <<>> ELSE AppendDeck(Decks(k - 1), CreateDeck)

\* The cards the short piles are made of: the first cards of a deck.
ShuffleCards == {CreateDeck[i] : i \in 1..ShuffleCardKinds}

\* The draw piles of at most MaxShortPile of these cards that a game with
\* k decks can hold.
ShufflePiles(k) ==
    {pile \in UNION {[1..n -> ShuffleCards] : n \in 0..MaxShortPile} :
        \A c \in ShuffleCards : Occurrences(pile, c) <= k}

\* A game late in its run: k decks were added and shuffled, and all cards but
\* those of the short draw pile were dealt to alice.
LateGame(k, pile) ==
    LET id == NewObjectID(1)
        dealt == RemoveAll(Decks(k), pile)
    IN /\ collection =
            [i \in {id} |->
               Game(id, "x", <<>>, pile,
                    IF dealt = <<>> THEN NoHands ELSE [p \in {"alice"} |-> dealt])]
       /\ objectIDCounter = 1
       /\ decksAdded = [i \in {id} |-> k]
       /\ last = Failed("none", <<>>, "", "")
       /\ inflight = NoCalls

\* The shuffles of a short pile: a late game of one or more decks.
ShuffleInit ==
    \E k \in 1..MaxShuffleDecks : \E pile \in ShufflePiles(k) : LateGame(k, pile)

\* Only ShuffleGameDeck is called.
ShuffleNext == \E gameID \in RequestIDs : ShuffleGameDeck(gameID, "none")

ShuffleSpec == ShuffleInit /\ [][ShuffleNext]_vars

\* The end of a game: a new game with no deck, or a late game of one deck.
EndgameInit ==
    \E k \in {0, 1} : \E pile \in ShufflePiles(k) : LateGame(k, pile)

\* Cards are dealt until the pile is empty, and after.
EndgameNext ==
    \E gameID \in RequestIDs, playerName \in PlayerNames :
        DealCardToPlayer(gameID, playerName, "none")

EndgameSpec == EndgameInit /\ [][EndgameNext]_vars

\* A deal from the game under way, to any player.
EndgameDeal ==
    \E playerName \in PlayerNames :
        DealCardToPlayer(Hex(NewObjectID(1)), playerName, "none")

\* The same run when dealing goes on: a deal from the game is not put off
\* for ever.
EndgameFairSpec == EndgameSpec /\ WF_vars(EndgameDeal)

\* ------------------------------------------------------- games under way

\* The player lists of a game: every list that holds no name twice.
PlayerLists == UNION {RangeOrders(names) : names \in SUBSET PlayerNames}

\* Who was dealt the cards that left the pile: alice, bob, or both (alice the
\* Hearts and the Diamonds, bob the Clubs and the Spades).
Shares == {"alice", "bob", "both"}

\* A game under way: one deck was added and shuffled, players joined, and
\* all cards but those of the short draw pile were dealt. No hand is made
\* for a player who was dealt nothing.
MidGame(pile, players, share) ==
    LET id == NewObjectID(1)
        dealt == RemoveAll(Decks(1), pile)
        Red(card) == card.Suit \in {suits[1], suits[2]}
        Black(card) == ~Red(card)
        dealtTo == [p \in {"alice", "bob"} |->
                      IF share = p THEN dealt
                      ELSE IF share # "both" THEN <<>>
                      ELSE IF p = "alice" THEN SelectSeq(dealt, Red)
                      ELSE SelectSeq(dealt, Black)]
        dealtSome == {p \in DOMAIN dealtTo : dealtTo[p] # <<>>}
    IN /\ collection =
            [i \in {id} |->
               Game(id, "x", players, pile, [p \in dealtSome |-> dealtTo[p]])]
       /\ objectIDCounter = 1
       /\ decksAdded = [i \in {id} |-> 1]
       /\ last = Failed("none", <<>>, "", "")
       /\ inflight = NoCalls

\* The names the players of PlayersSpec join under.
ListNames == PlayerNames \cup {"carol"}

\* Games are created, players join and leave.
PlayersNext ==
    \/ \E name \in GameNames : CreateGame(name, "none")
    \/ \E gameID \in RequestIDs, playerName \in ListNames :
          AddPlayer(gameID, playerName, "none")
    \/ \E gameID \in RequestIDs, playerName \in ListNames :
          RemovePlayer(gameID, playerName, "none")

\* The player lists alone, from an empty collection.
PlayersSpec == Init /\ [][PlayersNext]_vars

\* The short piles that were never shuffled: the first cards of a deck, in
\* deck order.
DealPiles == {[i \in 1..n |-> CreateDeck[i]] : n \in 0..MaxShortPile}

\* Players and hands: an empty collection, or a game under way.
HandsInit ==
    \/ Init
    \/ \E pile \in DealPiles, players \in PlayerLists, share \in Shares :
          MidGame(pile, players, share)

\* Games are created, players join and leave, cards are dealt and the hands
\* are read.
HandsNext ==
    \/ \E name \in GameNames : CreateGame(name, "none")
    \/ \E gameID \in RequestIDs, playerName \in PlayerNames :
          AddPlayer(gameID, playerName, "none")
    \/ \E gameID \in RequestIDs, playerName \in PlayerNames :
          RemovePlayer(gameID, playerName, "none")
    \/ \E gameID \in RequestIDs, playerName \in PlayerNames :
          DealCardToPlayer(gameID, playerName, "none")
    \/ \E gameID \in RequestIDs, playerName \in PlayerNames :
          GetPlayerHand(gameID, playerName, "none")
    \/ \E gameID \in RequestIDs : GetPlayersWithHandValues(gameID, "none")

HandsSpec == HandsInit /\ [][HandsNext]_vars

\* The cards the counted piles are made of: one of each suit, and a second
\* of Hearts.
CountedCards ==
    {Card("Hearts", "King"), Card("Hearts", "Ace"), Card("Clubs", "2"),
     Card("Spades", "Queen"), Card("Diamonds", "10")}

\* The draw piles of at most MaxShortPile of these cards that a game with
\* two decks can hold, in every order.
CountedPiles ==
    {pile \in UNION {[1..n -> CountedCards] : n \in 0..MaxShortPile} :
        \A c \in CountedCards : Occurrences(pile, c) <= 2}

\* Counting what remains: a late game of two decks, alice holding what was
\* dealt.
CountInit == \E pile \in CountedPiles : LateGame(2, pile)

\* Cards are dealt to bob and the remaining cards are counted.
CountNext ==
    \/ \E gameID \in RequestIDs : DealCardToPlayer(gameID, "bob", "none")
    \/ \E gameID \in RequestIDs : GetRemainingCardsCountBySuit(gameID, "none")
    \/ \E gameID \in RequestIDs : GetRemainingCardsSorted(gameID, "none")

CountSpec == CountInit /\ [][CountNext]_vars

\* The calls that read a game, the outcome of their store call drawn from
\* faults.
Query(faults) ==
    \/ \E gameID \in RequestIDs, playerName \in PlayerNames, fault \in faults :
          GetPlayerHand(gameID, playerName, fault)
    \/ \E gameID \in RequestIDs, fault \in faults :
          GetPlayersWithHandValues(gameID, fault)
    \/ \E gameID \in RequestIDs, fault \in faults :
          GetRemainingCardsCountBySuit(gameID, fault)
    \/ \E gameID \in RequestIDs, fault \in faults :
          GetRemainingCardsSorted(gameID, fault)

\* Every operation that names a game: a game under way whose pile is down
\* to its last card or empty, alice holding what was dealt.
LookupInit ==
    \E pile \in {<<>>, <<CreateDeck[1]>>}, players \in PlayerLists :
        MidGame(pile, players, "alice")

\* The operations that take a game identifier.
LookupNext ==
    \/ \E gameID \in RequestIDs : DeleteGame(gameID, "none")
    \/ \E gameID \in RequestIDs : AddDeckToGame(gameID, "none")
    \/ \E gameID \in RequestIDs : ShuffleGameDeck(gameID, "none")
    \/ \E gameID \in RequestIDs, playerName \in PlayerNames :
          AddPlayer(gameID, playerName, "none")
    \/ \E gameID \in RequestIDs, playerName \in PlayerNames :
          RemovePlayer(gameID, playerName, "none")
    \/ \E gameID \in RequestIDs, playerName \in PlayerNames :
          DealCardToPlayer(gameID, playerName, "none")
    \/ Query({"none"})

LookupSpec == LookupInit /\ [][LookupNext]_vars

\* Games are created, one more than the requests can name, deleted, and
\* called under their identifiers before and after.
LifecycleNext ==
    \/ \E name \in GameNames :
          /\ objectIDCounter < MaxGames + 1
          /\ InsertGame(name, "none")
    \/ LookupNext

\* A game under way: alice and bob joined, one card is left in the pile.
LifecycleInit == MidGame(<<CreateDeck[1]>>, <<"alice", "bob">>, "alice")

\* The end of the life of a game under way, and what follows it.
LifecycleSpec == LifecycleInit /\ [][LifecycleNext]_vars

\* The same operations, the store failing some of their calls.
FaultyNext ==
    \/ \E gameID \in RequestIDs, fault \in Faults \ {"find"} :
          DeleteGame(gameID, fault)
    \/ \E gameID \in RequestIDs, fault \in Faults : AddDeckToGame(gameID, fault)
    \/ \E gameID \in RequestIDs, fault \in Faults : ShuffleGameDeck(gameID, fault)
    \/ \E gameID \in RequestIDs, playerName \in PlayerNames, fault \in Faults :
          AddPlayer(gameID, playerName, fault)
    \/ \E gameID \in RequestIDs, playerName \in PlayerNames, fault \in Faults :
          RemovePlayer(gameID, playerName, fault)
    \/ \E gameID \in RequestIDs, playerName \in PlayerNames, fault \in Faults :
          DealCardToPlayer(gameID, playerName, fault)
    \/ Query(Faults)

FaultySpec == LookupInit /\ [][FaultyNext]_vars

\* ------------------------------------------------------ overlapping calls

\* The game the overlapping calls are about: one deck was added and
\* shuffled, carol joined, and all cards but the two of the pile were dealt
\* to alice.
RaceGame ==
    LET pile == <<CreateDeck[1], CreateDeck[2]>>
    IN Game(NewObjectID(1), "x", <<"carol">>, pile,
            [p \in {"alice"} |-> RemoveAll(CreateDeck, pile)])

\* The identifier the overlapping requests carry: that of the stored game.
RaceRequestID == Hex(RaceGame.ID)

\* The operations that load the game, change their copy and write it back.
RaceOps ==
    {"AddDeckToGame", "ShuffleGameDeck", "AddPlayer", "RemovePlayer",
     "DealCardToPlayer"}

\* A call that has not started: it holds no copy of the game yet. Once it
\* has loaded, loaded is the document FindOne decoded and game the copy
\* after the change in memory; stale says that the game was written between
\* its load and its write.
Request(op, playerName) ==
    [op |-> op, playerName |-> playerName, pc |-> "start", loaded |-> NoGame,
     game |-> NoGame, err |-> "", card |-> NoCard, stale |-> FALSE]

\* The calls that may overlap.
Requests ==
    {Request(op, playerName) :
        op \in {"AddPlayer", "RemovePlayer", "DealCardToPlayer"},
        playerName \in ListNames}
    \cup {Request("AddDeckToGame", ""), Request("ShuffleGameDeck", ""),
          Request("DeleteGame", "")}

\* What an operation does in memory between FindOne and UpdateOne, on the
\* copy it loaded: the error it returns without writing, or the changed copy
\* and the card it will return. A shuffle has one outcome for every sequence
\* of draws.
Outcomes(op, playerName, loaded) ==
    CASE op = "AddDeckToGame" ->
            {[err |-> "", card |-> NoCard,
              game |-> [loaded EXCEPT
                          !.GameDeck = AppendDeck(loaded.GameDeck, CreateDeck)]]}
      [] op = "ShuffleGameDeck" ->
            {[err |-> "", card |-> NoCard,
              game |-> [loaded EXCEPT
                          !.GameDeck = ShuffleDeck(loaded.GameDeck, js)]] :
                js \in RandSeqs(Len(loaded.GameDeck))}
      [] op = "AddPlayer" ->
            IF PlayerInGame(loaded.Players, playerName)
            THEN {[err |-> ErrAlreadyJoined, card |-> NoCard, game |-> loaded]}
            ELSE {[err |-> "", card |-> NoCard,
                   game |-> [loaded EXCEPT
                               !.Players = AppendPlayer(loaded.Players, playerName)]]}
      [] op = "RemovePlayer" ->
            LET newPlayers == WithoutPlayer(loaded.Players, playerName)
            IN IF Len(newPlayers) = Len(loaded.Players)
               THEN {[err |-> ErrPlayerNotFound, card |-> NoCard, game |-> loaded]}
               ELSE {[err |-> "", card |-> NoCard,
                      game |-> [loaded EXCEPT !.Players = newPlayers]]}
      [] op = "DealCardToPlayer" ->
            IF DeckIsEmpty(loaded.GameDeck)
            THEN {[err |-> ErrEmptyDeck, card |-> NoCard, game |-> loaded]}
            ELSE LET dealtCard == DealtCard(loaded.GameDeck)
                 IN {[err |-> "", card |-> dealtCard,
                      game |-> [loaded EXCEPT
                                  !.GameDeck = RestOfDeck(loaded.GameDeck),
                                  !.PlayerHands =
                                      HandsAfterDeal(loaded.PlayerHands,
                                                     playerName, dealtCard)]]}

\* An update that adds the players of the copy to the stored list instead
\* of replacing the list.
SetFieldsPushed(op, stored, game) ==
    CASE op \in {"AddDeckToGame", "ShuffleGameDeck"} ->
            [stored EXCEPT !.GameDeck = game.GameDeck]
      [] op \in {"AddPlayer", "RemovePlayer"} ->
            LET New(p) == ~PlayerInGame(stored.Players, p)
            IN [stored EXCEPT !.Players = @ \o SelectSeq(game.Players, New)]
      [] op = "DealCardToPlayer" ->
            [stored EXCEPT !.GameDeck = game.GameDeck,
                           !.PlayerHands = game.PlayerHands]

\* An update that replaces the whole document by the copy of the call.
SetFieldsWhole(op, stored, game) == game

\* The stored document after the UpdateOne of operation op: the fields the
\* operation $set-s are those of its copy game, the others stay as stored.
SetFields(op, stored, game) ==
    CASE op \in {"AddDeckToGame", "ShuffleGameDeck"} ->
            [stored EXCEPT !.GameDeck = game.GameDeck]
      [] op \in {"AddPlayer", "RemovePlayer"} -> SetPlayers(stored, game)
      [] op = "DealCardToPlayer" ->
            [stored EXCEPT !.GameDeck = game.GameDeck,
                           !.PlayerHands = game.PlayerHands]

\* An update that inserts the copy of the call when no document matches.
UpdateOneUpsert(store, id, op, game) ==
    IF id \in DOMAIN store
    THEN [store EXCEPT ![id] = SetFields(op, @, game)]
    ELSE [i \in DOMAIN store \cup {id} |-> IF i = id THEN game ELSE store[i]]

\* The collection after UpdateOne(ctx, {"_id": id}, {"$set": ...}) of
\* operation op: the document with that identifier gets the fields of the
\* copy; when there is none, nothing is matched and nothing is written. No
\* error is returned either way.
UpdateOne(store, id, op, game) ==
    IF id \in DOMAIN store
    THEN [store EXCEPT ![id] = SetFields(op, @, game)]
    ELSE store

\* Two calls on the stored game, neither started.
RaceInit ==
    /\ collection = [id \in {RaceGame.ID} |-> RaceGame]
    /\ objectIDCounter = 1
    /\ decksAdded = [id \in {RaceGame.ID} |-> 1]
    /\ last = Failed("none", <<>>, "", "")
    /\ inflight \in [1..2 -> Requests]

\* The first half of call c: the identifier is parsed, FindOne loads the
\* game, and the operation checks and changes its copy. A call whose check
\* fails returns its error here.
LoadGame(c) ==
    /\ inflight[c].pc = "start"
    /\ inflight[c].op \in RaceOps
    /\ LET call == inflight[c]
           parsed == ParsedRequestID[RaceRequestID]
           found == parsed.id \in DOMAIN collection
           loaded == IF found THEN collection[parsed.id] ELSE NoGame
           outcomes ==
               IF found THEN Outcomes(call.op, call.playerName, loaded)
               ELSE {[err |-> ErrGameNotFound, card |-> NoCard, game |-> NoGame]}
       IN \E o \in outcomes :
             /\ inflight' =
                  [inflight EXCEPT ![c] =
                      [call EXCEPT !.pc = IF o.err = "" THEN "loaded" ELSE "done",
                                   !.loaded = loaded, !.game = o.game,
                                   !.err = o.err, !.card = o.card]]
             /\ last' = IF o.err = "" THEN last
                        ELSE Failed(call.op, RaceRequestID, call.playerName, o.err)
             /\ UNCHANGED <<collection, objectIDCounter, decksAdded>>

\* The second half of call c: UpdateOne writes the fields of the operation
\* from the copy of the call, whatever was written since it loaded, and the
\* call returns; the result of UpdateOne (its MatchedCount) is dropped.
PersistGame(c) ==
    /\ inflight[c].pc = "loaded"
    /\ LET call == inflight[c]
           parsed == ParsedRequestID[RaceRequestID]
       IN /\ collection' = UpdateOne(collection, parsed.id, call.op, call.game)
          /\ decksAdded' =
               IF call.op = "AddDeckToGame" /\ parsed.id \in DOMAIN decksAdded
               THEN [decksAdded EXCEPT ![parsed.id] = @ + 1]
               ELSE decksAdded
          /\ inflight' =
               [k \in DOMAIN inflight |->
                   IF k = c THEN [call EXCEPT !.pc = "done"]
                   ELSE IF inflight[k].pc = "loaded"
                        THEN [inflight[k] EXCEPT !.stale = TRUE]
                        ELSE inflight[k]]
          /\ last' = Returned(call.op, RaceRequestID, call.playerName, "",
                              call.card,
                              IF call.op \in {"AddDeckToGame", "AddPlayer",
                                              "RemovePlayer"}
                              THEN call.game ELSE NoGame,
                              <<>>)
          /\ UNCHANGED objectIDCounter

\* Call c is a DeleteGame: its one store call, DeleteOne, and its return.
\* A call that holds a copy of the game now holds one of a deleted game.
DeleteLoaded(c) ==
    /\ inflight[c].pc = "start"
    /\ inflight[c].op = "DeleteGame"
    /\ LET call == inflight[c]
           parsed == ParsedRequestID[RaceRequestID]
           err == IF DeletedCount(collection, parsed.id) = 0
                  THEN ErrGameNotFound ELSE ""
       IN /\ collection' =
               [id \in DOMAIN collection \ {parsed.id} |-> collection[id]]
          /\ decksAdded' =
               [id \in DOMAIN decksAdded \ {parsed.id} |-> decksAdded[id]]
          /\ inflight' =
               [k \in DOMAIN inflight |->
                   IF k = c THEN [call EXCEPT !.pc = "done", !.err = err]
                   ELSE IF inflight[k].pc = "loaded" /\ err = ""
                        THEN [inflight[k] EXCEPT !.stale = TRUE]
                        ELSE inflight[k]]
          /\ last' = Failed("DeleteGame", RaceRequestID, "", err)
          /\ UNCHANGED objectIDCounter

\* Two calls run at once: the steps of the one fall between those of the
\* other in every order.
RaceNext ==
    \/ \E c \in 1..2 : LoadGame(c)
    \/ \E c \in 1..2 : PersistGame(c)
    \/ \E c \in 1..2 : DeleteLoaded(c)

RaceSpec == RaceInit /\ [][RaceNext]_vars

\* ------------------------------------------------------ request payloads

\* The bodies a client may post to the add-player, remove-player and
\* deal-card routes: one that is no JSON, a JSON object without player_name,
\* and an object whose player_name names a player. The field is a sequence
\* of no or one string.
Bodies ==
    {[wellFormed |-> FALSE, player_name |-> <<>>],
     [wellFormed |-> TRUE, player_name |-> <<>>]}
    \cup {[wellFormed |-> TRUE, player_name |-> <<name>>] : name \in PlayerNames}

\* json.NewDecoder(r.Body).Decode(&req): an error for a body that is no
\* JSON; a field the object lacks keeps the zero value of its type.
Decode(body) ==
    [err |-> ~body.wellFormed,
     PlayerName |-> IF body.wellFormed /\ body.player_name # <<>>
                    THEN body.player_name[1]
                    ELSE ""]

ErrInvalidPayload == "Invalid request payload"

StatusOK == 200
StatusBadRequest == 400
StatusInternalServerError == 500

\* The status the three handlers answer with: 400 when the body could not be
\* decoded, 500 for every error of the service, 200 otherwise.
PlayerHandlerStatus(err) ==
    IF err = ErrInvalidPayload THEN StatusBadRequest
    ELSE IF err # "" THEN StatusInternalServerError
    ELSE StatusOK

\* The handler returns before it calls the service.
InvalidPayload(handler, gameID) ==
    /\ last' = Failed(handler, gameID, "", ErrInvalidPayload)
    /\ UNCHANGED <<collection, objectIDCounter, decksAdded, inflight>>

\* handlers.AddPlayerHandler
AddPlayerHandler(gameID, body) ==
    LET req == Decode(body) IN
    IF req.err
    THEN InvalidPayload("AddPlayerHandler", gameID)
    ELSE AddPlayer(gameID, req.PlayerName, "none")

\* handlers.RemovePlayerHandler
RemovePlayerHandler(gameID, body) ==
    LET req == Decode(body) IN
    IF req.err
    THEN InvalidPayload("RemovePlayerHandler", gameID)
    ELSE RemovePlayer(gameID, req.PlayerName, "none")

\* handlers.DealCardToPlayerHandler
DealCardToPlayerHandler(gameID, body) ==
    LET req == Decode(body) IN
    IF req.err
    THEN InvalidPayload("DealCardToPlayerHandler", gameID)
    ELSE DealCardToPlayer(gameID, req.PlayerName, "none")

\* Requests to the three routes that take a player_name, one after another.
HandlerNext ==
    \/ \E gameID \in RequestIDs, body \in Bodies : AddPlayerHandler(gameID, body)
    \/ \E gameID \in RequestIDs, body \in Bodies : RemovePlayerHandler(gameID, body)
    \/ \E gameID \in RequestIDs, body \in Bodies :
          DealCardToPlayerHandler(gameID, body)

\* A new game that nobody joined, or a game whose pile is nearly dealt out.
HandlerSpec == EndgameInit /\ [][HandlerNext]_vars

\* ------------------------------------------------------------ properties

\* The suits and the values of a standard deck, in the order the
\* specification enumerates them.
StandardSuits == <<"Hearts", "Diamonds", "Clubs", "Spades">>
StandardValues == <<"Ace", "2", "3", "4", "5", "6", "7", "8", "9", "10",
                    "Jack", "Queen", "King">>

\* The standard deck as a sequence: suit by suit, each suit Ace to King.
StandardDeck ==
    [k \in 1..52 |->
        [Suit |-> StandardSuits[((k - 1) \div 13) + 1],
         Value |-> StandardValues[((k - 1) % 13) + 1]]]

\* The 52 cards of the standard deck.
StandardCards ==
    {[Suit |-> StandardSuits[i], Value |-> StandardValues[j]] : i \in 1..4, j \in 1..13}

\* The identifier the call l named, and whether it named a game of store.
LastID(l) == ParsedRequestID[l.gameID].id
NamesGame(l, store) ==
    /\ l.gameID \in RequestIDs
    /\ ~ParsedRequestID[l.gameID].err
    /\ LastID(l) \in DOMAIN store

\* The hand of player p in hands, empty when p has none.
HandOf(hands, p) == IF p \in DOMAIN hands THEN hands[p] ELSE <<>>

\* Copies of card c in the hands of the players ps.
RECURSIVE CopiesInHands(_, _, _)
CopiesInHands(hands, ps, c) ==
    IF ps = {} THEN 0
    ELSE LET p == CHOOSE q \in ps : TRUE
         IN Occurrences(hands[p], c) + CopiesInHands(hands, ps \ {p}, c)

\* Copies of card c in the draw pile and the hands of game.
CopiesInGame(game, c) ==
    Occurrences(game.GameDeck, c)
    + CopiesInHands(game.PlayerHands, DOMAIN game.PlayerHands, c)

\* C1: card conservation. In every reachable state, for every stored game,
\* the draw pile and the hands together hold every card of the standard deck
\* exactly k times and no other card, k being the number of successful
\* AddDeckToGame calls on that game.
C1_CardConservation ==
    \A id \in DOMAIN collection :
        LET game == collection[id] IN
        /\ \A c \in StandardCards : CopiesInGame(game, c) = decksAdded[id]
        /\ \A i \in 1..Len(game.GameDeck) : game.GameDeck[i] \in StandardCards
        /\ \A p \in DOMAIN game.PlayerHands :
              \A i \in 1..Len(game.PlayerHands[p]) :
                  game.PlayerHands[p][i] \in StandardCards

\* C1 witness: a game with a deck, a card in a hand and a player, right after
\* a shuffle that changed the top of its pile.
C1_Witness ==
    /\ last.op = "ShuffleGameDeck" /\ last.err = ""
    /\ \E id \in DOMAIN collection :
        /\ decksAdded[id] >= 1
        /\ collection[id].PlayerHands # NoHands
        /\ Len(collection[id].Players) >= 1
        /\ collection[id].GameDeck[1] = StandardDeck[3]

\* C2: a successful DealCardToPlayer returns the card that was at index 0,
\* leaves the pile without its first element and the player's hand with the
\* returned card appended (the hand created if the player had none).
C2_DealMovesTopCard ==
    [][(last'.op = "DealCardToPlayer" /\ last'.err = "") =>
        LET id == LastID(last')
            p == last'.playerName
            before == collection[id]
            after == collection'[id]
        IN /\ Len(before.GameDeck) >= 1
           /\ last'.card = before.GameDeck[1]
           /\ after.GameDeck = Tail(before.GameDeck)
           /\ Len(after.GameDeck) = Len(before.GameDeck) - 1
           /\ p \in DOMAIN after.PlayerHands
           /\ after.PlayerHands[p] = Append(HandOf(before.PlayerHands, p), last'.card)
      ]_vars

\* C2 witness: a deal that appended a second card to the hand of its player.
C2_Witness ==
    /\ last.op = "DealCardToPlayer" /\ last.err = ""
    /\ Len(collection[LastID(last)].PlayerHands[last.playerName]) = 2

\* C3: DealCardToPlayer on a stored game whose draw pile is empty fails with
\* EmptyDeck and leaves the store as it was, with no hand made for the player.
C3_DealFromEmptyPile ==
    [][(/\ last'.op = "DealCardToPlayer"
        /\ NamesGame(last', collection)
        /\ collection[LastID(last')].GameDeck = <<>>) =>
        /\ last'.err = ErrEmptyDeck
        /\ last'.card = NoCard
        /\ collection' = collection
        /\ (last'.playerName \in DOMAIN collection'[LastID(last')].PlayerHands)
             = (last'.playerName \in DOMAIN collection[LastID(last')].PlayerHands)
      ]_vars

\* C3 witness: a deal to bob failed with EmptyDeck on a game whose deck was
\* dealt out to the last card, alice holding cards and bob having no hand.
C3_Witness ==
    /\ last.op = "DealCardToPlayer" /\ last.err = ErrEmptyDeck
    /\ NamesGame(last, collection)
    /\ decksAdded[LastID(last)] = 1
    /\ "alice" \in DOMAIN collection[LastID(last)].PlayerHands
    /\ last.playerName = "bob"
    /\ "bob" \notin DOMAIN collection[LastID(last)].PlayerHands

\* C4: CreateDeck returns 52 cards, no two equal, 13 of each suit, in the
\* order Hearts, Diamonds, Clubs, Spades and Ace, 2, ..., 10, Jack, Queen,
\* King within a suit; every call returns this same sequence.
C4_CreateDeckIsStandard ==
    last.op = "CreateDeck" =>
        LET d == last.deck IN
        /\ Len(d) = 52
        /\ \A i, j \in 1..Len(d) : i # j => d[i] # d[j]
        /\ \A n \in 1..4 :
              Cardinality({i \in 1..Len(d) : d[i].Suit = StandardSuits[n]}) = 13
        /\ d = StandardDeck

\* C4 witness: a call of CreateDeck returned a deck that ends with the King
\* of Spades.
C4_Witness ==
    /\ last.op = "CreateDeck"
    /\ Len(last.deck) > 0
    /\ last.deck[Len(last.deck)] = [Suit |-> "Spades", Value |-> "King"]

\* C5: a successful ShuffleGameDeck stores a permutation of the pile it
\* loaded: the same length and the same number of occurrences of each card,
\* for every pile (empty, with duplicates) and every sequence of draws.
C5_ShufflePreservesMultiset ==
    [][(last'.op = "ShuffleGameDeck" /\ last'.err = "") =>
        LET before == collection[LastID(last')].GameDeck
            after == collection'[LastID(last')].GameDeck
        IN /\ Len(after) = Len(before)
           /\ \A i \in 1..Len(before) :
                 Occurrences(after, before[i]) = Occurrences(before, before[i])
           /\ \A i \in 1..Len(after) :
                 Occurrences(before, after[i]) = Occurrences(after, after[i])
      ]_vars

\* C5 witness: a shuffle left a pile of three cards with a duplicate whose
\* top card is not the first card of a deck although the pile holds it.
C5_Witness ==
    /\ last.op = "ShuffleGameDeck" /\ last.err = ""
    /\ LET pile == collection[LastID(last)].GameDeck IN
       /\ Len(pile) = 3
       /\ pile[2] = pile[3]
       /\ pile[1] # pile[2]

\* Every sequence of n draws of rand.Intn(n).
AllDraws(n) == [1..n -> 0..(n - 1)]

\* The orderings of a pile.
Orderings(pile) ==
    {[i \in 1..Len(pile) |-> pile[f[i]]] :
        f \in {g \in [1..Len(pile) -> 1..Len(pile)] :
                 \A i, j \in 1..Len(pile) : i # j => g[i] # g[j]}}

\* The sequences of draws for which shuffling pile yields ordering.
Ways(pile, ordering) ==
    Cardinality({js \in AllDraws(Len(pile)) : ShuffleDeck(pile, js) = ordering})

\* C6: the shuffle is uniform. For a draw pile of N distinct cards every one
\* of its N! orderings is produced by the same number of sequences of draws.
C6_ShuffleIsUniform ==
    \A id \in DOMAIN collection :
        LET pile == collection[id].GameDeck IN
        (/\ Len(pile) <= MaxShortPile
         /\ \A i, j \in 1..Len(pile) : i # j => pile[i] # pile[j]) =>
            \A o1, o2 \in Orderings(pile) : Ways(pile, o1) = Ways(pile, o2)

\* C7: a successful AddDeckToGame leaves the pile equal to the previous pile
\* followed by the 52 cards of the deck in deck order, and returns the game
\* as it is stored.
C7_AddDeckAppends ==
    [][(last'.op = "AddDeckToGame" /\ last'.err = "") =>
        LET before == collection[LastID(last')]
            after == collection'[LastID(last')]
        IN /\ after.GameDeck = before.GameDeck \o StandardDeck
           /\ Len(after.GameDeck) = Len(before.GameDeck) + 52
           /\ SubSeq(after.GameDeck, 1, Len(before.GameDeck)) = before.GameDeck
           /\ last'.game = after
      ]_vars

\* C7 witness: a deck was added behind a pile that had been shuffled and
\* dealt from.
C7_Witness ==
    /\ last.op = "AddDeckToGame" /\ last.err = ""
    /\ LET game == collection[LastID(last)] IN
       /\ Len(game.GameDeck) = 103
       /\ game.GameDeck[1] = StandardDeck[1]
       /\ game.PlayerHands # NoHands

\* C8: AddPlayer with a name that is in the player list fails with
\* AlreadyJoined and leaves the store, so the list, unchanged; of two
\* consecutive AddPlayer calls with the same name on a game the first having
\* succeeded, the second fails.
C8_AddPlayerTwice ==
    [][/\ (/\ last'.op = "AddPlayer"
           /\ NamesGame(last', collection)
           /\ \E i \in 1..Len(collection[LastID(last')].Players) :
                 collection[LastID(last')].Players[i] = last'.playerName) =>
            /\ last'.err = ErrAlreadyJoined
            /\ collection' = collection
            /\ Len(collection'[LastID(last')].Players)
                 = Len(collection[LastID(last')].Players)
       /\ (/\ last.op = "AddPlayer" /\ last.err = ""
           /\ last'.op = "AddPlayer"
           /\ last'.gameID = last.gameID
           /\ last'.playerName = last.playerName) =>
            last'.err = ErrAlreadyJoined
      ]_vars

\* C8 witness: the second player of a game was added again and refused.
C8_Witness ==
    /\ last.op = "AddPlayer" /\ last.err = ErrAlreadyJoined
    /\ Len(collection[LastID(last)].Players) = 2
    /\ collection[LastID(last)].Players[2] = last.playerName

\* C9: no name appears more than once in the player list of a stored game.
C9_PlayersUnique ==
    \A id \in DOMAIN collection :
        \A i, j \in 1..Len(collection[id].Players) :
            i # j => collection[id].Players[i] # collection[id].Players[j]

\* C9 witness: a game with a deck and a dealt card that lists both names,
\* bob first.
C9_Witness ==
    \E id \in DOMAIN collection :
        /\ collection[id].Players = <<"bob", "alice">>
        /\ collection[id].PlayerHands # NoHands
        /\ decksAdded[id] >= 1

\* C10: a successful AddPlayer leaves the player list equal to the previous
\* list with the name appended at its end.
C10_AddPlayerAppends ==
    [][(last'.op = "AddPlayer" /\ last'.err = "") =>
        LET before == collection[LastID(last')].Players
            after == collection'[LastID(last')].Players
        IN /\ after = Append(before, last'.playerName)
           /\ Len(after) = Len(before) + 1
           /\ \A i \in 1..Len(before) : after[i] = before[i]
      ]_vars

\* C10 witness: a successful AddPlayer made its name the second of the list.
C10_Witness ==
    /\ last.op = "AddPlayer" /\ last.err = ""
    /\ Len(collection[LastID(last)].Players) = 2
    /\ collection[LastID(last)].Players[2] = last.playerName

\* Whether name is in the list players.
IsListed(players, name) == \E i \in 1..Len(players) : players[i] = name

\* C11: RemovePlayer on a stored game fails with PlayerNotFound and leaves
\* the store unchanged when the name is not in the player list; otherwise it
\* succeeds and the list is the previous one without the first entry equal
\* to the name: one entry shorter, the other players in their previous order.
C11_RemovePlayer ==
    [][(last'.op = "RemovePlayer" /\ NamesGame(last', collection)) =>
        LET before == collection[LastID(last')]
            name == last'.playerName
        IN IF ~IsListed(before.Players, name)
           THEN /\ last'.err = ErrPlayerNotFound
                /\ collection' = collection
           ELSE LET after == collection'[LastID(last')] IN
                /\ last'.err = ""
                /\ after.Players = RemoveFirst(before.Players, name)
                /\ Len(after.Players) = Len(before.Players) - 1
                /\ last'.game.Players = after.Players
      ]_vars

\* C11 witness: bob left a game of three players, carol listed before alice.
C11_Witness ==
    /\ last.op = "RemovePlayer" /\ last.err = "" /\ last.playerName = "bob"
    /\ collection[LastID(last)].Players = <<"carol", "alice">>

\* C12: a successful RemovePlayer leaves the hands and the draw pile as they
\* were, the hand of the removed player included; a GetPlayerHand for that
\* name right after it returns the cards the player held, and a
\* GetPlayersWithHandValues right after it has a row for the name.
C12_RemovePlayerKeepsHand ==
    [][/\ (last'.op = "RemovePlayer" /\ last'.err = "") =>
            LET before == collection[LastID(last')]
                after == collection'[LastID(last')]
            IN /\ after.PlayerHands = before.PlayerHands
               /\ after.GameDeck = before.GameDeck
               /\ last'.game.PlayerHands = before.PlayerHands
       /\ (/\ last.op = "RemovePlayer" /\ last.err = ""
           /\ last.playerName \in DOMAIN last.game.PlayerHands
           /\ last'.gameID = last.gameID) =>
            /\ (last'.op = "GetPlayerHand" /\ last'.playerName = last.playerName) =>
                  /\ last'.err = ""
                  /\ last'.deck = last.game.PlayerHands[last.playerName]
            /\ last'.op = "GetPlayersWithHandValues" =>
                  /\ last'.err = ""
                  /\ \E i \in 1..Len(last'.rows) :
                        last'.rows[i].PlayerName = last.playerName
      ]_vars

\* C12 witness: alice, who holds cards, was removed from a game that still
\* lists bob.
C12_Witness ==
    /\ last.op = "RemovePlayer" /\ last.err = "" /\ last.playerName = "alice"
    /\ LET game == collection[LastID(last)] IN
       /\ game.Players = <<"bob">>
       /\ "alice" \in DOMAIN game.PlayerHands
       /\ Len(game.PlayerHands["alice"]) >= 1

\* C13: DealCardToPlayer on a stored game whose draw pile is not empty
\* succeeds whether or not the name is in the player list, and it leaves the
\* player list as it was.
C13_DealNeedsNoMembership ==
    [][(/\ last'.op = "DealCardToPlayer"
        /\ NamesGame(last', collection)
        /\ collection[LastID(last')].GameDeck # <<>>) =>
        /\ last'.err = ""
        /\ collection'[LastID(last')].Players = collection[LastID(last')].Players
        /\ last'.playerName \in DOMAIN collection'[LastID(last')].PlayerHands
      ]_vars

\* C13 witness: a card was dealt to bob, who had no hand, in a game that
\* lists alice only.
C13_Witness ==
    /\ last.op = "DealCardToPlayer" /\ last.err = "" /\ last.playerName = "bob"
    /\ LET game == collection[LastID(last)] IN
       /\ game.Players = <<"alice">>
       /\ Len(game.PlayerHands["bob"]) = 1

\* C14: GetPlayerHand on a stored game fails with PlayerNotFound exactly when
\* no DealCardToPlayer for that game and name has succeeded. A name has a
\* hand entry after a step exactly when it had one before or the step was a
\* successful deal to it; GetPlayerHand fails exactly when there is no entry
\* and returns the entry otherwise; right after CreateGame it fails for
\* every name; and no stored hand is an empty sequence.
C14_HandIffDealt ==
    [][/\ (last'.op = "GetPlayerHand" /\ NamesGame(last', collection)) =>
            LET hands == collection[LastID(last')].PlayerHands
                name == last'.playerName
            IN IF name \in DOMAIN hands
               THEN last'.err = "" /\ last'.deck = hands[name]
               ELSE last'.err = ErrNoHand /\ last'.deck = <<>>
       /\ \A id \in DOMAIN collection' :
            LET before == IF id \in DOMAIN collection
                          THEN DOMAIN collection[id].PlayerHands ELSE {}
                after == DOMAIN collection'[id].PlayerHands
                dealt == IF /\ last'.op = "DealCardToPlayer" /\ last'.err = ""
                            /\ LastID(last') = id
                            /\ collection' # collection
                         THEN {last'.playerName} ELSE {}
            IN /\ after = before \cup dealt
               /\ \A name \in after : collection'[id].PlayerHands[name] # <<>>
       /\ (/\ last.op = "CreateGame" /\ last.err = ""
           /\ last'.op = "GetPlayerHand"
           /\ last'.gameID = Hex(last.game.ID)) =>
            last'.err = ErrNoHand
      ]_vars

\* C14 witness: GetPlayerHand failed for bob, a listed player who was never
\* dealt to, in a game in which alice holds cards.
C14_Witness ==
    /\ last.op = "GetPlayerHand" /\ last.err = ErrNoHand /\ last.playerName = "bob"
    /\ NamesGame(last, collection)
    /\ LET game == collection[LastID(last)] IN
       /\ IsListed(game.Players, "bob")
       /\ DOMAIN game.PlayerHands = {"alice"}

\* The rank of a value in the table Ace = 1, 2..10 = face value, Jack = 11,
\* Queen = 12, King = 13: its place in the enumeration Ace to King.
Rank(value) == CHOOSE r \in 1..Len(StandardValues) : StandardValues[r] = value

\* The sum of the ranks of the cards of hand whose rank is at most r.
RECURSIVE RankSum(_, _)
RankSum(hand, r) ==
    IF r = 0 THEN 0
    ELSE r * Cardinality({i \in 1..Len(hand) : Rank(hand[i].Value) = r})
         + RankSum(hand, r - 1)

\* C15: GetPlayersWithHandValues on a stored game returns one row for each
\* key of the hands map and no other row, whatever the player list holds,
\* and the value of a row is the sum of the ranks of the cards of that hand
\* (Ace 1, 2..10 face value, Jack 11, Queen 12, King 13).
C15_HandValues ==
    [][(last'.op = "GetPlayersWithHandValues" /\ NamesGame(last', collection)) =>
        LET hands == collection[LastID(last')].PlayerHands
            rows == last'.rows
        IN /\ last'.err = ""
           /\ Len(rows) = Cardinality(DOMAIN hands)
           /\ \A i \in 1..Len(rows) :
                 /\ rows[i].PlayerName \in DOMAIN hands
                 /\ rows[i].HandValue =
                      RankSum(hands[rows[i].PlayerName], Len(StandardValues))
           /\ \A name \in DOMAIN hands :
                 Cardinality({i \in 1..Len(rows) : rows[i].PlayerName = name}) = 1
      ]_vars

\* C15 witness: the rows of a game that lists bob, who was never dealt to,
\* and in which alice, who is not listed, holds cards up to the King: one row,
\* for alice.
C15_Witness ==
    /\ last.op = "GetPlayersWithHandValues" /\ last.err = ""
    /\ NamesGame(last, collection)
    /\ LET game == collection[LastID(last)] IN
       /\ game.Players = <<"bob">>
       /\ DOMAIN game.PlayerHands = {"alice"}
       /\ \E i \in 1..Len(game.PlayerHands["alice"]) :
             game.PlayerHands["alice"][i].Value = "King"
       /\ Len(last.rows) = 1
       /\ last.rows[1].PlayerName = "alice"

\* C16: the rows GetPlayersWithHandValues returns are in non-increasing
\* order of hand value: no row has a smaller value than the row after it.
C16_HandValuesSorted ==
    last.op = "GetPlayersWithHandValues" =>
        \A i \in 1..(Len(last.rows) - 1) :
            last.rows[i].HandValue >= last.rows[i + 1].HandValue

\* C16 witness: two rows were returned, the first with the greater value.
C16_Witness ==
    /\ last.op = "GetPlayersWithHandValues" /\ last.err = ""
    /\ Len(last.rows) = 2
    /\ last.rows[1].HandValue > last.rows[2].HandValue

\* Cards of suit in the sequence cards.
OfSuit(cards, suit) == Cardinality({i \in 1..Len(cards) : cards[i].Suit = suit})

\* C17: GetRemainingCardsCountBySuit on a stored game returns four rows, one
\* for each of Hearts, Diamonds, Clubs and Spades, each with the number of
\* cards of that suit in the draw pile (0 when there is none); the cards in
\* the hands are not counted.
C17_CountBySuit ==
    (last.op = "GetRemainingCardsCountBySuit" /\ NamesGame(last, collection)) =>
        LET pile == collection[LastID(last)].GameDeck
            rows == last.rows
        IN /\ last.err = ""
           /\ Len(rows) = 4
           /\ \A n \in 1..Len(StandardSuits) :
                 \E i \in 1..Len(rows) :
                     /\ rows[i].Suit = StandardSuits[n]
                     /\ rows[i].Count = OfSuit(pile, StandardSuits[n])
                     /\ \A j \in 1..Len(rows) : rows[j].Suit = rows[i].Suit => j = i
           /\ pile = <<>> => \A i \in 1..Len(rows) : rows[i].Count = 0

\* C17 witness: the counts of a pile of a Heart and a Spade, returned Spades
\* first and Clubs last, while bob holds a Club that was dealt from it.
C17_Witness ==
    /\ last.op = "GetRemainingCardsCountBySuit" /\ last.err = ""
    /\ NamesGame(last, collection)
    /\ LET game == collection[LastID(last)] IN
       /\ OfSuit(game.GameDeck, "Hearts") = 1
       /\ OfSuit(game.GameDeck, "Spades") = 1
       /\ "bob" \in DOMAIN game.PlayerHands
       /\ game.PlayerHands["bob"] = <<Card("Clubs", "2")>>
       /\ last.rows[1] = [Suit |-> "Spades", Count |-> 1]
       /\ last.rows[4] = [Suit |-> "Clubs", Count |-> 0]

\* The suits and the values in the order of the rows of
\* GetRemainingCardsSorted.
SortedSuits == <<"Hearts", "Spades", "Clubs", "Diamonds">>
SortedValues == <<"King", "Queen", "Jack", "10", "9", "8", "7", "6", "5", "4",
                  "3", "2", "Ace">>

\* The place of a row in that order.
SortedPlace(row) ==
    Len(SortedValues) * (CHOOSE n \in 1..Len(SortedSuits) : SortedSuits[n] = row.Suit)
    + (CHOOSE n \in 1..Len(SortedValues) : SortedValues[n] = row.Value)

\* C18: GetRemainingCardsSorted on a stored game returns one row for each
\* pair of suit and value that occurs in the draw pile, with the number of
\* its occurrences, and no row for a pair that does not occur; the rows are
\* ordered by suit (Hearts, Spades, Clubs, Diamonds) and within a suit by
\* value (King, Queen, Jack, 10, ..., 2, Ace).
C18_RemainingSorted ==
    (last.op = "GetRemainingCardsSorted" /\ NamesGame(last, collection)) =>
        LET pile == collection[LastID(last)].GameDeck
            rows == last.rows
        IN /\ last.err = ""
           /\ \A i \in 1..Len(rows) :
                 /\ [Suit |-> rows[i].Suit, Value |-> rows[i].Value] \in StandardCards
                 /\ rows[i].Count >= 1
                 /\ rows[i].Count =
                      Occurrences(pile, [Suit |-> rows[i].Suit, Value |-> rows[i].Value])
           /\ \A k \in 1..Len(pile) :
                 \E i \in 1..Len(rows) :
                     rows[i].Suit = pile[k].Suit /\ rows[i].Value = pile[k].Value
           /\ \A i, j \in 1..Len(rows) :
                 i < j => SortedPlace(rows[i]) < SortedPlace(rows[j])

\* C18 witness: the rows of the pile 2 of Clubs, Ace of Hearts, King of
\* Hearts: King of Hearts, Ace of Hearts, 2 of Clubs.
C18_Witness ==
    /\ last.op = "GetRemainingCardsSorted" /\ last.err = ""
    /\ NamesGame(last, collection)
    /\ collection[LastID(last)].GameDeck =
         <<Card("Clubs", "2"), Card("Hearts", "Ace"), Card("Hearts", "King")>>
    /\ last.rows = <<[Suit |-> "Hearts", Value |-> "King", Count |-> 1],
                     [Suit |-> "Hearts", Value |-> "Ace", Count |-> 1],
                     [Suit |-> "Clubs", Value |-> "2", Count |-> 1]>>

\* The operations that take a game identifier.
LookupOps ==
    {"AddDeckToGame", "ShuffleGameDeck", "AddPlayer", "RemovePlayer",
     "DealCardToPlayer", "GetPlayerHand", "GetPlayersWithHandValues",
     "GetRemainingCardsCountBySuit", "GetRemainingCardsSorted", "DeleteGame"}

\* A well-formed identifier: 24 characters, each a hex digit.
WellFormed(gameID) ==
    /\ Len(gameID) = 24
    /\ \A k \in 1..Len(gameID) :
          gameID[k] \in {"0", "1", "2", "3", "4", "5", "6", "7", "8", "9",
                         "a", "b", "c", "d", "e", "f",
                         "A", "B", "C", "D", "E", "F"}

\* C19: each of the ten operations that take a game identifier, called with
\* a well-formed identifier under which no game is stored, fails with
\* NotFound, returns nothing else and leaves the store as it was.
C19_NotFound ==
    [][(/\ last'.op \in LookupOps
        /\ WellFormed(last'.gameID)
        /\ LastID(last') \notin DOMAIN collection) =>
        /\ last'.err = "game not found"
        /\ last' = Failed(last'.op, last'.gameID, last'.playerName, last'.err)
        /\ collection' = collection
        /\ LastID(last') \notin DOMAIN collection'
      ]_vars

\* C19 witness: a card was asked for bob under the identifier of a game that
\* is not stored, and the call failed with NotFound.
C19_Witness ==
    /\ last.op = "DealCardToPlayer" /\ last.err = ErrGameNotFound
    /\ last.playerName = "bob"
    /\ WellFormed(last.gameID)
    /\ LastID(last) = NewObjectID(1)
    /\ LastID(last) \notin DOMAIN collection

\* C20: each of the ten operations that take a game identifier, called with
\* a malformed identifier, fails with InvalidIdentifier and leaves the store
\* as it was, whatever the store would have answered and whatever the
\* stored games hold.
C20_InvalidIdentifier ==
    [][(last'.op \in LookupOps /\ ~WellFormed(last'.gameID)) =>
        /\ last'.err = "invalid game ID"
        /\ last' = Failed(last'.op, last'.gameID, last'.playerName, last'.err)
        /\ collection' = collection
      ]_vars

\* C20 witness: a card was asked for alice under an identifier of two
\* characters, with a stored game whose pile is empty, and the call failed
\* with InvalidIdentifier.
C20_Witness ==
    /\ last.op = "DealCardToPlayer" /\ last.err = ErrInvalidID
    /\ last.gameID = <<"4", "2">>
    /\ \E id \in DOMAIN collection : collection[id].GameDeck = <<>>

\* The identifiers the requests can name.
NameableIDs == {ParsedRequestID[s].id : s \in {r \in RequestIDs : WellFormed(r)}}

\* The identifier id was handed out, counter identifiers having been handed
\* out so far, and no game is stored under it in store: its game was deleted.
Gone(store, counter, id) ==
    /\ id \notin DOMAIN store
    /\ \E n \in 1..counter : id = NewObjectID(n)

\* C21: once DeleteGame(id) has succeeded no game is stored under id for the
\* rest of the run, whatever is created afterwards, and every operation
\* called with id from then on, a second DeleteGame included, fails with
\* NotFound.
C21_DeletedForGood ==
    [][/\ (/\ last'.op = "DeleteGame" /\ last'.err = ""
           /\ LastID(last') \in DOMAIN collection) =>
            Gone(collection', objectIDCounter', LastID(last'))
       /\ \A id \in NameableIDs \ DOMAIN collection :
              Gone(collection, objectIDCounter, id) =>
                  Gone(collection', objectIDCounter', id)
       /\ (/\ last'.op \in LookupOps
           /\ Gone(collection, objectIDCounter, LastID(last'))
           /\ WellFormed(last'.gameID)) =>
            last'.err = "game not found"
      ]_vars

\* C21 witness: a second DeleteGame of the first game failed with NotFound
\* after a game had been created in its place.
C21_Witness ==
    /\ last.op = "DeleteGame" /\ last.err = ErrGameNotFound
    /\ WellFormed(last.gameID) /\ LastID(last) = NewObjectID(1)
    /\ DOMAIN collection = {NewObjectID(2)}

\* C22: a successful CreateGame stores, under an identifier under which no
\* game was stored, a game with a name of the request, an empty player
\* list, an empty draw pile and no hands, returns it, and leaves every game
\* that was stored as it was.
C22_CreateGame ==
    [][(last'.op = "CreateGame" /\ last'.err = "") =>
        LET game == last'.game IN
        /\ game.ID \notin DOMAIN collection
        /\ DOMAIN collection' = DOMAIN collection \cup {game.ID}
        /\ collection'[game.ID] = game
        /\ game.Name \in GameNames
        /\ game.Players = <<>>
        /\ game.GameDeck = <<>>
        /\ DOMAIN game.PlayerHands = {}
        /\ \A id \in DOMAIN collection : collection'[id] = collection[id]
      ]_vars

\* C22 witness: a game was created while a game under way, with players and
\* a hand, was stored.
C22_Witness ==
    /\ last.op = "CreateGame" /\ last.err = ""
    /\ \E id \in DOMAIN collection :
          /\ id # last.game.ID
          /\ Len(collection[id].Players) = 2
          /\ DOMAIN collection[id].PlayerHands # {}
    /\ collection[last.game.ID].Players = <<>>
\* C23: an operation that returns an error of any kind leaves every stored
\* game as it was before the operation started; none writes a part of its
\* change and then fails.
C23_ErrorLeavesStore ==
    [][last'.err # "" => collection' = collection]_vars

\* C23 witness: a deal from a non-empty pile whose write the store refused.
C23_Witness ==
    /\ last.op = "DealCardToPlayer" /\ last.err = "store error"
    /\ NamesGame(last, collection)
    /\ collection[LastID(last)].GameDeck # <<>>

\* C24: when the store fails during a step of an operation on a stored
\* game, the load included, the result is PersistenceError and not NotFound.
\* The store holding the game, NotFound can only come from a failed load, so
\* the claim is that no operation called with the identifier of a stored
\* game answers NotFound.
C24_StoreFailureNotNotFound ==
    [][(/\ last'.op \in LookupOps
        /\ WellFormed(last'.gameID)
        /\ NamesGame(last', collection)) =>
         last'.err # "game not found"]_vars

\* C25: the delete-game endpoint answers 204 on success, 404 only when the
\* game is not found, and 500 for every other failure, a malformed
\* identifier and a persistence error included.
C25_DeleteStatus ==
    last.op = "DeleteGame" =>
        LET status == DeleteGameHandler(last.err)
        IN /\ last.err = "" => status = 204
           /\ last.err = "game not found" => status = 404
           /\ last.err \notin {"", "game not found"} => status = 500

\* The overlapping calls have all returned.
Finished ==
    /\ DOMAIN inflight = 1..2
    /\ \A c \in 1..2 : inflight[c].pc = "done"

\* Call c has returned without an error.
Succeeded(c) == inflight[c].pc = "done" /\ inflight[c].err = ""

\* The stored document of the game the overlapping calls are about.
Stored == collection[RaceGame.ID]

\* C26: lost updates are reachable. Of two AddPlayer calls with different
\* names on the same game that both return success, the one that writes a
\* copy it loaded before the other wrote overwrites the other's player: no
\* version is checked, the stored list is the list it loaded plus its own
\* name, and the name the other call added is not in it.
C26_LostUpdate ==
    \A a \in 1..2, b \in 1..2 :
        (/\ DOMAIN inflight = 1..2
         /\ a # b
         /\ inflight[a].op = "AddPlayer" /\ inflight[b].op = "AddPlayer"
         /\ inflight[a].playerName # inflight[b].playerName
         /\ Succeeded(a) /\ Succeeded(b)
         /\ inflight[b].stale) =>
            /\ Stored.Players =
                  Append(inflight[b].loaded.Players, inflight[b].playerName)
            /\ ~IsListed(Stored.Players, inflight[a].playerName)

\* C26 witness: AddPlayer(alice) and AddPlayer(bob) both returned success
\* and alice is not a player of the stored game.
C26_Witness ==
    /\ Finished
    /\ inflight[1].op = "AddPlayer" /\ inflight[1].playerName = "alice"
    /\ inflight[2].op = "AddPlayer" /\ inflight[2].playerName = "bob"
    /\ Succeeded(1) /\ Succeeded(2)
    /\ Stored.Players = <<"carol", "bob">>

\* Cards in the draw pile and the hands of game.
CardsInGame(game) ==
    Len(game.GameDeck) + CardsInHands(game.PlayerHands, DOMAIN game.PlayerHands)

\* The two calls are a deal, d, and a shuffle or an added deck, k.
DealMeets(d, k) ==
    /\ DOMAIN inflight = 1..2
    /\ d # k
    /\ inflight[d].op = "DealCardToPlayer"
    /\ inflight[k].op \in {"ShuffleGameDeck", "AddDeckToGame"}

\* C27 as stated: when a DealCardToPlayer interleaves with a ShuffleGameDeck
\* or an AddDeckToGame, in the final stored state no card occurrence is both
\* in the draw pile and in a hand, and the draw pile and the hands together
\* hold 52 cards for every AddDeckToGame that returned success.
C27_ConservedUnderOverlap ==
    \A d \in 1..2, k \in 1..2 :
        (DealMeets(d, k) /\ Finished) =>
            /\ \A c \in StandardCards :
                  CopiesInGame(Stored, c) <= decksAdded[RaceGame.ID]
            /\ CardsInGame(Stored) = 52 * decksAdded[RaceGame.ID]

\* C27 amended: conservation holds in the final state when the deal and the
\* shuffle or added deck do not overlap. When both loaded before either
\* wrote, the last write wins: if the shuffle or the added deck is written
\* last, the dealt card is in the hand and in the pile again, one occurrence
\* too many; if the deal is written last the pile is the one it loaded less
\* the dealt card, so a shuffle is undone and an added deck is lost, every
\* card being one short of the decks that were added with success.
C27_ConservedUnlessOverlap ==
    \A d \in 1..2, k \in 1..2 :
        (DealMeets(d, k) /\ Finished /\ Succeeded(d)) =>
            LET decks == decksAdded[RaceGame.ID]
                dealt == inflight[d].card
            IN IF inflight[k].stale
               THEN \A c \in StandardCards :
                       CopiesInGame(Stored, c) = IF c = dealt THEN decks + 1 ELSE decks
               ELSE IF inflight[d].stale
               THEN /\ Stored.GameDeck = Tail(inflight[d].loaded.GameDeck)
                    /\ \A c \in StandardCards :
                          CopiesInGame(Stored, c) =
                              IF inflight[k].op = "AddDeckToGame" THEN decks - 1 ELSE decks
               ELSE \A c \in StandardCards : CopiesInGame(Stored, c) = decks

\* C27 witness: a deal to bob and an added deck overlapped, the deck was
\* written last: the card bob holds is also on top of the pile.
C27_Witness ==
    /\ Finished
    /\ inflight[1].op = "DealCardToPlayer" /\ inflight[1].playerName = "bob"
    /\ inflight[2].op = "AddDeckToGame" /\ inflight[2].stale
    /\ Succeeded(1) /\ Succeeded(2)
    /\ "bob" \in DOMAIN Stored.PlayerHands
    /\ Stored.PlayerHands["bob"] = <<Stored.GameDeck[1]>>

\* The position, in the pile the game started with, of the card that deal c
\* was handed: the cards that had left the pile when it loaded, plus one.
DealtPosition(c) ==
    Len(RaceGame.GameDeck) - Len(inflight[c].loaded.GameDeck) + 1

\* The card call c returned is in the stored hand of its recipient.
InStoredHand(c) ==
    \E i \in 1..Len(HandOf(Stored.PlayerHands, inflight[c].playerName)) :
        HandOf(Stored.PlayerHands, inflight[c].playerName)[i] = inflight[c].card

\* Both calls are deals and both returned a card.
BothDealt ==
    /\ Finished
    /\ \A c \in 1..2 : inflight[c].op = "DealCardToPlayer" /\ Succeeded(c)

\* C28 as stated: two successful DealCardToPlayer calls on the same game,
\* overlapping or not, return different positions of the draw pile, and
\* each returned card is in the stored hand of its recipient once both have
\* finished.
C28_NoCardDealtTwice ==
    BothDealt =>
        /\ DealtPosition(1) # DealtPosition(2)
        /\ InStoredHand(1) /\ InStoredHand(2)

\* C28 amended: two successful deals that do not overlap return the first
\* and the second card of the pile, both cards are in the stored hands of
\* their recipients and have left the pile. Two deals that both loaded
\* before either wrote return the same card, the top of the pile they
\* loaded; the stored pile has lost that one card, and the stored hands are
\* those of the deal that wrote last, so with different recipients the first
\* recipient does not hold the card it was returned.
C28_CardDealtTwiceOnOverlap ==
    \A a \in 1..2, b \in 1..2 :
        (BothDealt /\ a # b /\ ~inflight[a].stale) =>
            IF inflight[b].stale
            THEN /\ DealtPosition(a) = 1 /\ DealtPosition(b) = 1
                 /\ inflight[a].card = RaceGame.GameDeck[1]
                 /\ inflight[b].card = RaceGame.GameDeck[1]
                 /\ Stored.GameDeck = Tail(RaceGame.GameDeck)
                 /\ Stored.PlayerHands = inflight[b].game.PlayerHands
                 /\ InStoredHand(b)
                 /\ inflight[a].playerName # inflight[b].playerName =>
                       ~InStoredHand(a)
            ELSE /\ {DealtPosition(a), DealtPosition(b)} = {1, 2}
                 /\ inflight[a].card = RaceGame.GameDeck[DealtPosition(a)]
                 /\ inflight[b].card = RaceGame.GameDeck[DealtPosition(b)]
                 /\ InStoredHand(a) /\ InStoredHand(b)
                 /\ Stored.GameDeck = Tail(Tail(RaceGame.GameDeck))

\* C28 witness: deals to bob and to carol overlapped and returned the same
\* card; carol holds it, bob holds nothing, one card has left the pile.
C28_Witness ==
    /\ BothDealt
    /\ inflight[1].playerName = "bob" /\ inflight[2].playerName = "carol"
    /\ inflight[1].card = inflight[2].card
    /\ InStoredHand(2) /\ "bob" \notin DOMAIN Stored.PlayerHands
    /\ Len(Stored.GameDeck) = Len(RaceGame.GameDeck) - 1

\* Both calls are AddPlayer with the same name, and both have returned.
SameNameAdded ==
    /\ Finished
    /\ inflight[1].op = "AddPlayer" /\ inflight[2].op = "AddPlayer"
    /\ inflight[1].playerName = inflight[2].playerName

\* C29 as stated: when two AddPlayer calls with the same name on the same
\* game interleave their load and persist steps, at most one of them
\* returns success and the stored player list holds the name at most once.
C29_OneJoinSucceeds ==
    SameNameAdded =>
        /\ ~(Succeeded(1) /\ Succeeded(2))
        /\ Occurrences(Stored.Players, inflight[1].playerName) <= 1

\* C29 amended: the stored player list holds the name at most once in every
\* interleaving. For a name that is not yet listed, exactly one call returns
\* success when the calls do not overlap, the other failing with
\* AlreadyJoined, and both return success when both loaded before either
\* wrote; for a listed name both fail.
C29_NameOnceBothMaySucceed ==
    SameNameAdded =>
        LET name == inflight[1].playerName
            overlap == inflight[1].stale \/ inflight[2].stale
        IN IF IsListed(RaceGame.Players, name)
           THEN /\ \A c \in 1..2 : inflight[c].err = "player already in the game"
                /\ Stored.Players = RaceGame.Players
           ELSE /\ Stored.Players = Append(RaceGame.Players, name)
                /\ Succeeded(1) \/ Succeeded(2)
                /\ (Succeeded(1) /\ Succeeded(2)) <=> overlap
                /\ \A c \in 1..2 :
                      ~Succeeded(c) => inflight[c].err = "player already in the game"

\* C29 witness: two AddPlayer(alice) overlapped, both returned success, and
\* alice is listed once.
C29_Witness ==
    /\ SameNameAdded
    /\ inflight[1].playerName = "alice"
    /\ Succeeded(1) /\ Succeeded(2)
    /\ Stored.Players = <<"carol", "alice">>

\* The documents that operation op of call c can leave when it runs alone,
\* from its load to its write, on the stored document doc.
RunAlone(doc, c) ==
    {IF o.err = "" THEN SetFields(inflight[c].op, doc, o.game) ELSE doc :
        o \in Outcomes(inflight[c].op, inflight[c].playerName, doc)}

\* The documents that call a, run alone, and then call b, run alone, can
\* leave of the stored document doc.
InTurn(doc, a, b) == UNION {RunAlone(d, b) : d \in RunAlone(doc, a)}

\* Call p writes the player list only, call k the draw pile and the hands.
DisjointFields(p, k) ==
    /\ DOMAIN inflight = 1..2
    /\ p # k
    /\ inflight[p].op \in {"AddPlayer", "RemovePlayer"}
    /\ inflight[k].op \in {"DealCardToPlayer", "ShuffleGameDeck", "AddDeckToGame"}

\* C30: an AddPlayer or RemovePlayer that overlaps a DealCardToPlayer, a
\* ShuffleGameDeck or an AddDeckToGame on the same game leaves, in every
\* interleaving of their load and persist steps, the stored game that
\* running the two one after the other leaves, in either order.
C30_DisjointFields ==
    \A p \in 1..2, k \in 1..2 :
        (DisjointFields(p, k) /\ Finished) =>
            /\ Stored \in InTurn(RaceGame, p, k)
            /\ Stored \in InTurn(RaceGame, k, p)

\* C30 witness: RemovePlayer(carol) wrote a copy it had loaded before a deal
\* to bob was written: carol has left and bob holds the card.
C30_Witness ==
    /\ Finished
    /\ inflight[1].op = "RemovePlayer" /\ inflight[1].playerName = "carol"
    /\ inflight[2].op = "DealCardToPlayer" /\ inflight[2].playerName = "bob"
    /\ inflight[1].stale
    /\ Stored.Players = <<>>
    /\ "bob" \in DOMAIN Stored.PlayerHands
    /\ Stored.PlayerHands["bob"] = <<RaceGame.GameDeck[1]>>
    /\ Stored.GameDeck = Tail(RaceGame.GameDeck)

\* C31: a mutating operation returns success only if its mutation was
\* persisted: the step in which a call that holds a copy returns success
\* leaves the game stored with the fields the operation writes equal to
\* those of the copy, also when a DeleteGame fell between its load and its
\* write (it must then return an error).
C31_SuccessMeansPersisted ==
    [][\A c \in 1..2 :
          (/\ DOMAIN inflight = 1..2
           /\ inflight[c].pc = "loaded"
           /\ inflight'[c].pc = "done" /\ inflight'[c].err = "") =>
              /\ RaceGame.ID \in DOMAIN collection'
              /\ LET after == collection'[RaceGame.ID]
                     copy == inflight[c].game
                 IN IF inflight[c].op \in {"AddPlayer", "RemovePlayer"}
                    THEN after.Players = copy.Players
                    ELSE IF inflight[c].op = "DealCardToPlayer"
                    THEN /\ after.GameDeck = copy.GameDeck
                         /\ after.PlayerHands = copy.PlayerHands
                    ELSE after.GameDeck = copy.GameDeck
      ]_vars

\* C32: a deleted game is never resurrected. Once DeleteGame has returned
\* success no game is stored under the identifier, whatever a call that
\* loaded the game before the deletion writes afterwards.
C32_NeverResurrected ==
    (/\ DOMAIN inflight = 1..2
     /\ \E c \in 1..2 : inflight[c].op = "DeleteGame" /\ Succeeded(c)) =>
        RaceGame.ID \notin DOMAIN collection

\* C32 witness: DeleteGame succeeded between the load and the write of a
\* deal to bob; the deal has written and returned, and no game is stored.
C32_Witness ==
    /\ Finished
    /\ inflight[1].op = "DeleteGame" /\ Succeeded(1)
    /\ inflight[2].op = "DealCardToPlayer" /\ inflight[2].playerName = "bob"
    /\ inflight[2].stale /\ Succeeded(2)
    /\ DOMAIN collection = {}

\* The cards of front are the first cards of pile, in the same order.
IsFrontOf(front, pile) ==
    /\ Len(front) <= Len(pile)
    /\ \A i \in 1..Len(front) : pile[i] = front[i]

\* C33: deal order is first-in first-out and hands are append-only. A
\* successful deal returns the front card of the draw pile and leaves the
\* rest; no step but a shuffle changes the order of the cards that stay in a
\* pile or puts a card in front of them (so successive deals between two
\* shuffles return the successive front cards, and the first deal after a
\* deck was added to an empty game returns the Ace of Hearts); and in every
\* step every stored hand is the previous hand or the previous hand with the
\* dealt card appended, a new hand holding the dealt card alone.
C33_DealOrder ==
    [][\A id \in DOMAIN collection \cap DOMAIN collection' :
          LET before == collection[id]
              after == collection'[id]
              dealt == /\ last'.op = "DealCardToPlayer" /\ last'.err = ""
                       /\ LastID(last') = id
          IN /\ dealt =>
                  /\ before.GameDeck # <<>>
                  /\ last'.card = before.GameDeck[1]
                  /\ after.GameDeck = Tail(before.GameDeck)
                  /\ before.GameDeck = CreateDeck =>
                        last'.card = [Suit |-> "Hearts", Value |-> "Ace"]
             /\ (~dealt /\ last'.op # "ShuffleGameDeck") =>
                  IsFrontOf(before.GameDeck, after.GameDeck)
             /\ \A p \in DOMAIN before.PlayerHands :
                  /\ p \in DOMAIN after.PlayerHands
                  /\ \/ after.PlayerHands[p] = before.PlayerHands[p]
                     \/ /\ dealt /\ last'.playerName = p
                        /\ after.PlayerHands[p] =
                              Append(before.PlayerHands[p], last'.card)
             /\ \A p \in DOMAIN after.PlayerHands \ DOMAIN before.PlayerHands :
                  /\ dealt /\ last'.playerName = p
                  /\ after.PlayerHands[p] = <<last'.card>>
      ]_vars

\* C33 witness: the first two deals after a deck was added to an empty game,
\* with no shuffle, went to alice: she holds the Ace and the 2 of Hearts in
\* that order and the pile starts with the 3 of Hearts.
C33_Witness ==
    /\ last.op = "DealCardToPlayer" /\ last.err = ""
    /\ NamesGame(last, collection)
    /\ last.playerName = "alice"
    /\ collection[LastID(last)].PlayerHands =
          [p \in {"alice"} |-> <<[Suit |-> "Hearts", Value |-> "Ace"],
                                 [Suit |-> "Hearts", Value |-> "2"]>>]
    /\ collection[LastID(last)].GameDeck = SubSeq(CreateDeck, 3, 52)

\* C34: dealing exhausts the pile. With no deck added, a deal from the game
\* succeeds exactly when its pile holds a card and takes exactly one card
\* off it, and fails with EmptyDeck, the pile staying empty, when it holds
\* none: of a pile of N cards exactly N deals succeed and every later one
\* fails. Under repeated dealing the game reaches the empty pile and stays
\* there.
C34_DealingExhaustsPile ==
    /\ [][\A id \in DOMAIN collection :
             /\ id \in DOMAIN collection'
             /\ (/\ last'.op = "DealCardToPlayer"
                 /\ WellFormed(last'.gameID)
                 /\ LastID(last') = id) =>
                    IF Len(collection[id].GameDeck) > 0
                    THEN /\ last'.err = ""
                         /\ Len(collection'[id].GameDeck) =
                               Len(collection[id].GameDeck) - 1
                    ELSE /\ last'.err = "no cards left to deal"
                         /\ collection'[id].GameDeck = <<>>
             /\ Len(collection'[id].GameDeck) <= Len(collection[id].GameDeck)
         ]_vars
    /\ <>[](\A id \in DOMAIN collection : collection[id].GameDeck = <<>>)

\* C34 witness: a pile of three cards was dealt to bob card by card, and
\* the fourth deal has failed with EmptyDeck.
C34_Witness ==
    /\ last.op = "DealCardToPlayer" /\ last.err = "no cards left to deal"
    /\ NamesGame(last, collection)
    /\ collection[LastID(last)].GameDeck = <<>>
    /\ "bob" \in DOMAIN collection[LastID(last)].PlayerHands
    /\ Len(collection[LastID(last)].PlayerHands["bob"]) = 3
    /\ decksAdded[LastID(last)] = 1

\* C35: every permutation of the draw pile is a possible result of
\* ShuffleGameDeck. For a pile of N distinct cards and each of its N!
\* orderings, the unchanged order included, at least one sequence of draws
\* of rand.Intn(N) makes the loop yield that ordering.
C35_EveryOrderingPossible ==
    \A id \in DOMAIN collection :
        LET pile == collection[id].GameDeck IN
        (/\ Len(pile) <= MaxShortPile
         /\ \A i, j \in 1..Len(pile) : i # j => pile[i] # pile[j]) =>
            \A o \in Orderings(pile) : Ways(pile, o) >= 1

\* C35 witness: a shuffle has turned a pile of three distinct cards of one
\* deck upside down: deck order from the bottom up.
C35_Witness ==
    /\ last.op = "ShuffleGameDeck" /\ last.err = ""
    /\ NamesGame(last, collection)
    /\ LET pile == collection[LastID(last)].GameDeck IN
       /\ Len(pile) = 3
       /\ pile = <<CreateDeck[3], CreateDeck[2], CreateDeck[1]>>
       /\ Cardinality(Orderings(pile)) = 6

\* The sum of the counts of the rows whose suit is in suitsCounted.
RECURSIVE SumCounts(_, _)
SumCounts(rows, suitsCounted) ==
    IF rows = <<>> THEN 0
    ELSE (IF Head(rows).Suit \in suitsCounted THEN Head(rows).Count ELSE 0)
         + SumCounts(Tail(rows), suitsCounted)

\* The rows by suit and the rows by card agree on a pile of pileLen cards:
\* each suit has one row by suit, whose count is the sum of the counts of
\* the suit's rows by card, and the four counts by suit add up to pileLen.
StatisticsAgree(bySuit, byCard, pileLen) ==
    /\ \A suit \in {"Hearts", "Diamonds", "Clubs", "Spades"} :
          /\ Cardinality({i \in 1..Len(bySuit) : bySuit[i].Suit = suit}) = 1
          /\ SumCounts(bySuit, {suit}) = SumCounts(byCard, {suit})
    /\ SumCounts(bySuit, {"Hearts", "Diamonds", "Clubs", "Spades"}) = pileLen

\* C36: the two remaining-card statistics agree on every reachable game.
\* What either query has returned for a stored game agrees with everything
\* the other query can return for it: for each suit the counts of the
\* suit's entries of GetRemainingCardsSorted add up to the suit's count of
\* GetRemainingCardsCountBySuit, and the four suit counts add up to the
\* length of the draw pile.
C36_StatisticsAgree ==
    (/\ last.op \in {"GetRemainingCardsCountBySuit", "GetRemainingCardsSorted"}
     /\ last.err = ""
     /\ NamesGame(last, collection)) =>
        LET game == collection[LastID(last)]
        IN IF last.op = "GetRemainingCardsSorted"
           THEN \A bySuit \in RemainingCounts(game) :
                   StatisticsAgree(bySuit, last.rows, Len(game.GameDeck))
           ELSE StatisticsAgree(last.rows, RemainingCards(game.GameDeck),
                                Len(game.GameDeck))

\* C36 witness: GetRemainingCardsSorted has returned two rows, a King of
\* Hearts counted twice and a Queen of Spades, for a pile of three cards.
C36_Witness ==
    /\ last.op = "GetRemainingCardsSorted" /\ last.err = ""
    /\ NamesGame(last, collection)
    /\ Len(collection[LastID(last)].GameDeck) = 3
    /\ last.rows = <<[Suit |-> "Hearts", Value |-> "King", Count |-> 2],
                     [Suit |-> "Spades", Value |-> "Queen", Count |-> 1]>>

\* C37: each mutating operation changes only its own part of the game. In
\* every step every game that stays stored keeps its identifier and its
\* name; AddPlayer and RemovePlayer leave the draw pile and the hands as
\* they were, AddDeckToGame and ShuffleGameDeck the player list and the
\* hands, DealCardToPlayer the player list and the hand of every player but
\* the recipient, making no hand but the recipient's.
C37_OwnPartOnly ==
    [][\A id \in DOMAIN collection \cap DOMAIN collection' :
          LET before == collection[id]
              after == collection'[id]
              op == last'.op
          IN /\ after.ID = before.ID /\ after.ID = id
             /\ after.Name = before.Name
             /\ op \in {"AddPlayer", "RemovePlayer"} =>
                   /\ after.GameDeck = before.GameDeck
                   /\ after.PlayerHands = before.PlayerHands
             /\ op \in {"AddDeckToGame", "ShuffleGameDeck"} =>
                   /\ after.Players = before.Players
                   /\ after.PlayerHands = before.PlayerHands
             /\ op = "DealCardToPlayer" =>
                   /\ after.Players = before.Players
                   /\ DOMAIN after.PlayerHands \subseteq
                         DOMAIN before.PlayerHands \cup {last'.playerName}
                   /\ \A p \in DOMAIN before.PlayerHands \ {last'.playerName} :
                         /\ p \in DOMAIN after.PlayerHands
                         /\ after.PlayerHands[p] = before.PlayerHands[p]
      ]_vars

\* C37 witness: alice joined and holds one card; the next card was dealt to
\* bob, who had no hand: the player list and alice's hand are as they were.
C37_Witness ==
    /\ last.op = "DealCardToPlayer" /\ last.err = ""
    /\ last.playerName = "bob"
    /\ NamesGame(last, collection)
    /\ LET game == collection[LastID(last)] IN
       /\ game.Players = <<"alice">>
       /\ Len(game.GameDeck) = 50
       /\ DOMAIN game.PlayerHands = {"alice", "bob"}
       /\ game.PlayerHands["alice"] = <<CreateDeck[1]>>
       /\ game.PlayerHands["bob"] = <<CreateDeck[2]>>
       /\ last.card = CreateDeck[2]

\* The operations that only read.
QueryOps ==
    {"GetPlayerHand", "GetPlayersWithHandValues",
     "GetRemainingCardsCountBySuit", "GetRemainingCardsSorted"}

\* The entries of the result of a call, as a set.
ResultEntries(l) ==
    {l.rows[i] : i \in 1..Len(l.rows)} \cup {l.deck[i] : i \in 1..Len(l.deck)}

\* C38: the queries never write. A step that is one of the four queries,
\* whether the call succeeds or fails, leaves every stored game as it was;
\* and when it follows a successful call of the same query with the same
\* arguments and succeeds too, it returns the same set of entries as that
\* call did.
C38_QueriesNeverWrite ==
    [][last'.op \in QueryOps =>
          /\ collection' = collection
          /\ (/\ last.op = last'.op
              /\ last.gameID = last'.gameID
              /\ last.playerName = last'.playerName
              /\ last.err = "" /\ last'.err = "") =>
                 ResultEntries(last') = ResultEntries(last)
      ]_vars

\* C38 witness: the counts by suit were returned for a stored game, the
\* suits in an order other than the one the map was made in.
C38_Witness ==
    /\ last.op = "GetRemainingCardsCountBySuit" /\ last.err = ""
    /\ NamesGame(last, collection)
    /\ Len(last.rows) = 4
    /\ last.rows[1].Suit = "Spades" /\ last.rows[4].Suit = "Hearts"
    /\ \E i \in 1..4 : last.rows[i].Count > 0

\* C39: a request to the add-player, remove-player or deal-card route whose
\* body is well-formed JSON without player_name is answered with 400 and
\* changes nothing. Under HandlerSpec the service is called with the empty
\* name exactly for such a body: then the status is 400, the collection is
\* as it was, and no game lists a player or keeps a hand under the empty
\* name.
C39_MissingNameRejected ==
    [][(/\ last'.op \in {"AddPlayer", "RemovePlayer", "DealCardToPlayer"}
        /\ last'.playerName = "") =>
          /\ PlayerHandlerStatus(last'.err) = 400
          /\ collection' = collection
          /\ \A id \in DOMAIN collection' :
                /\ \A i \in 1..Len(collection'[id].Players) :
                      collection'[id].Players[i] # ""
                /\ "" \notin DOMAIN collection'[id].PlayerHands
      ]_vars

====
